---- MODULE Spec2Model ----
(***************************************************************************)
(* GoalFlow-AI: the plan-synthesis pipeline (goal analysis, task           *)
(* decomposition, priority scoring, schedule construction), the agents     *)
(* behind it and the orchestrator that sequences them.                     *)
(*                                                                         *)
(* Numbers of hours are integers in thousandths of an hour (2.5 h = 2500), *)
(* so that every product  duration * percent / 100  of the code is exact.  *)
(* A generated response is a record                                        *)
(*   [kind, form, json]:  kind "fail" = callHuggingFace threw,             *)
(*   kind "text" = it returned text; form says how the JSON payload is     *)
(*   wrapped in that text ("bare", "fenced" in ``` marks, "prose" around   *)
(*   it), json is the payload ("garbage" = no JSON in the text at all).    *)
(***************************************************************************)
EXTENDS Integers, Sequences, FiniteSets, TLC

VARIABLES
    pc,            \* position of the createStudyPlan run
    goalText,      \* argument of createStudyPlan
    options,       \* argument of createStudyPlan: userContext, schedulingPreferences
    analyzedGoal,  \* const analyzedGoal (server.js:210)
    tasks,         \* const tasks (server.js:219)
    scoredTasks,   \* const scoredTasks (server.js:229)
    schedule,      \* const schedule (server.js:240)
    executionLog,  \* this.executionLog: the step names, in order
    result,        \* the object createStudyPlan returns
    genLog,        \* the outcome of every generation call of the run, in order
    callee,        \* direct agent call: which method was called
    arg,           \* direct agent call: its arguments
    resp,          \* direct agent call: what the generation call gave
    ret,           \* direct agent call: what the method returned or threw
    hf,            \* the callHuggingFace call in progress: its loop position and calls
    reqs,          \* the createStudyPlan requests of the controller: position and locals
    orchLogs,      \* this.executionLog of each AgentOrchestrator instance
    store,         \* the documents saved to the record store
    rfl            \* overlapping reflect calls on one memory object: the object, the runs

orchVars  == <<pc, goalText, options, analyzedGoal, tasks, scoredTasks, schedule,
               executionLog, result, genLog>>
agentVars == <<callee, arg, resp, ret>>
ctlVars   == <<reqs, orchLogs, store>>
svcVars   == <<hf, reqs, orchLogs, store, rfl>>
vars      == <<pc, goalText, options, analyzedGoal, tasks, scoredTasks, schedule,
               executionLog, result, genLog, callee, arg, resp, ret, hf,
               reqs, orchLogs, store, rfl>>

----------------------------------------------------------------------------
(* Bounds of the model *)

\* longest array a generated response carries (tasks, scores, days, instances)
MaxGenItems == 2
\* most progress observations a reflection has analysed
MaxProgress == 5
\* most scheduleChanges / priorityChanges a reflection carries
MaxChanges == 4
\* most reflection calls a caller makes with the memory it keeps
MaxReflections == 2
\* largest maxRetries option a caller of callHuggingFace gives
MaxRetries == 4

\* nothing is in progress: a behaviour is one run, or one call, of one operation
\* the two requests in flight at the controller
Requests == {1, 2}

NoCall == pc = "idle" /\ callee = "none" /\ hf.pc = "idle"
\* the two reflect calls in flight on one memory object
Runs == {1, 2}

NoRequest == \A i \in Requests : reqs[i].pc = "idle"
NoReflection == \A i \in Runs : rfl.runs[i].pc = "idle"
Idle == NoCall /\ NoRequest /\ NoReflection

----------------------------------------------------------------------------
(* Generic helpers *)

Min(a, b) == IF a < b THEN a ELSE b
Max(a, b) == IF a > b THEN a ELSE b

RECURSIVE SumSeq(_)
SumSeq(s) == IF s = <<>> THEN 0 ELSE Head(s) + SumSeq(Tail(s))

SeqsUpTo(S, n) == UNION { [1..k -> S] : k \in 0..n }

\* a method's outcome: a returned value, or a thrown error
Returned(v) == [threw |-> FALSE, value |-> v]
Threw       == [threw |-> TRUE,  value |-> <<>>]

\* raw numbers of a generated payload: absent, a non-numeric string, or a number
\* (v in thousandths)
RawMissing == [t |-> "missing", v |-> 0]
RawText    == [t |-> "text",    v |-> 0]
RawNum(v)  == [t |-> "num",     v |-> v]

\* Number.prototype.toFixed(1) read back with parseFloat: the nearest tenth, in
\* exact arithmetic (a binary double just below a tie rounds down in the code)
ToFixed1(x) == ((x + 50) \div 100) * 100

----------------------------------------------------------------------------
(* Generation responses and JSON extraction *)

GenFail == [kind |-> "fail", form |-> "bare", json |-> [t |-> "garbage"]]
GenText(form, json) == [kind |-> "text", form |-> form, json |-> json]

\* trim, drop the ``` marks, JSON.parse: succeeds on a payload that stands alone
ParseDirect(r) == r.json.t # "garbage" /\ r.form \in {"bare", "fenced"}

\* GoalAnalyzerAgent.parseResponse: direct parse, else the first "{" to the last
\* "}" of the text (the regex match and the slice are the same span), parsed again
ParseWithRecovery(r) ==
    \/ ParseDirect(r)
    \/ r.json.t = "obj" /\ r.form = "prose"

----------------------------------------------------------------------------
(* Goal texts and deadlines *)

\* A goal text by what the code reads of it: the number of whitespace-separated
\* words it holds (0: the empty string) and whether the deadline regex of
\* createFallbackAnalysis matches it.
GoalTexts ==
    { [tokens |-> 0,  mentionsDeadline |-> FALSE],    \* ""
      [tokens |-> 6,  mentionsDeadline |-> TRUE],     \* "Learn Python basics in 2 weeks"
      [tokens |-> 11, mentionsDeadline |-> FALSE],
      [tokens |-> 21, mentionsDeadline |-> TRUE] }

IsEmptyGoal(g) == g.tokens = 0

\* goalText.split(/\s+/).length: "" splits into one empty string
WordCount(g) == IF g.tokens = 0 THEN 1 ELSE g.tokens

\* deadline texts; "nonstring" is a JSON number given where a string belongs
Deadlines == {"not specified", "deadline mentioned", "2 weeks", "tomorrow",
              "next year", "nonstring"}

validateComplexity(c) ==
    LET normalized == IF c = "HIGH" THEN "high" ELSE c
    IN  IF normalized \in {"low", "medium", "high"} THEN normalized ELSE "medium"

createFallbackAnalysis(g) ==
    [originalGoal   |-> g,
     parsedDeadline |-> IF g.mentionsDeadline THEN "deadline mentioned"
                        ELSE "not specified",
     subject        |-> "goal prefix",
     complexity     |-> IF WordCount(g) > 20 THEN "high"
                        ELSE IF WordCount(g) > 10 THEN "medium" ELSE "low",
     fallback       |-> TRUE]

\* payload of a goal-analysis response: [t, parsedDeadline, subject, complexity];
\* "missing" is an absent field, complexity "nonstring" a number
GoalParseResponse(r, g) ==
    IF ~ParseWithRecovery(r) THEN createFallbackAnalysis(g)
    ELSE IF r.json.t = "null" THEN createFallbackAnalysis(g)
    ELSE IF r.json.complexity = "nonstring" THEN createFallbackAnalysis(g)
    ELSE [originalGoal   |-> g,
          parsedDeadline |-> IF r.json.parsedDeadline = "missing"
                             THEN "not specified" ELSE r.json.parsedDeadline,
          subject        |-> IF r.json.subject = "missing"
                             THEN "General task" ELSE r.json.subject,
          complexity     |-> validateComplexity(r.json.complexity),
          fallback       |-> FALSE]

analyzeGoal(g, r) ==
    IF r.kind = "fail" THEN Threw
    ELSE Returned(GoalParseResponse(r, g))

----------------------------------------------------------------------------
(* TaskDecomposerAgent *)

\* an entry of a generated task array: [isObject, estimatedHours, priority, order];
\* isObject FALSE is a null entry, order 0 an absent order, priority "missing" an
\* absent one and "nonstring" a number
GenTask(h, p, o) == [isObject |-> TRUE, estimatedHours |-> h, priority |-> p, order |-> o]
NullEntry == [isObject |-> FALSE, estimatedHours |-> RawMissing, priority |-> "missing",
              order |-> 0]

validateHours(hours) ==
    IF hours.t # "num" \/ hours.v <= 0 THEN 2000
    ELSE IF hours.v > 40000 THEN 40000
    ELSE ((2 * hours.v + 500) \div 1000) * 500

validatePriority(priority) ==
    LET normalized == IF priority = "HIGH" THEN "high" ELSE priority
    IN  IF normalized \in {"high", "medium", "low"} THEN normalized ELSE "medium"

\* reading the entry throws a TypeError: a null entry, or a priority without
\* toLowerCase
EntryThrows(e) == ~e.isObject \/ e.priority = "nonstring"

createFallbackTasks(goal) ==
    LET taskCount == IF goal.complexity = "high" THEN 5
                     ELSE IF goal.complexity = "medium" THEN 4 ELSE 3
        baseHours == IF goal.complexity = "high" THEN 3000
                     ELSE IF goal.complexity = "medium" THEN 2000 ELSE 1500
    IN  [k \in 1..taskCount |->
            [id             |-> k - 1,
             estimatedHours |-> baseHours + (k - 1) * 500,
             priority       |-> IF k - 1 < 2 THEN "high" ELSE "medium",
             order          |-> k,
             status         |-> "pending",
             fallback       |-> TRUE]]

\* payload of a decomposition response: [t, items]
DecomposeParseResponse(r, goal) ==
    IF ~ParseDirect(r) THEN createFallbackTasks(goal)
    ELSE IF r.json.t # "arr" THEN createFallbackTasks(goal)
    ELSE IF \E k \in 1..Len(r.json.items) : EntryThrows(r.json.items[k])
         THEN createFallbackTasks(goal)
    ELSE [k \in 1..Len(r.json.items) |->
            [id             |-> k - 1,
             estimatedHours |-> validateHours(r.json.items[k].estimatedHours),
             priority       |-> validatePriority(r.json.items[k].priority),
             order          |-> IF r.json.items[k].order = 0 THEN k
                                ELSE r.json.items[k].order,
             status         |-> "pending",
             fallback       |-> FALSE]]

decompose(goal, r) ==
    IF r.kind = "fail" THEN Threw
    ELSE Returned(DecomposeParseResponse(r, goal))

----------------------------------------------------------------------------
(* PriorityScorerAgent *)

\* an entry of a generated score array: [isObject, taskIndex, score];
\* taskIndex -1 is an absent index
GenScore(i, sc) == [isObject |-> TRUE, taskIndex |-> i, score |-> sc]
NullScore == [isObject |-> FALSE, taskIndex |-> -1, score |-> RawMissing]

\* parseInt: the integer part, NaN (isNaN TRUE) for anything that is no number
parseInt(raw) ==
    [isNaN |-> raw.t # "num",
     n     |-> IF raw.v >= 0 THEN raw.v \div 1000 ELSE -((-raw.v) \div 1000)]

\* validateScore without its upper clamp
validateScore_NoUpperClamp(score) ==
    LET num == parseInt(score)
    IN  IF num.isNaN THEN 5
        ELSE IF num.n < 1 THEN 1
        ELSE num.n

validateScore(score) ==
    LET num == parseInt(score)
    IN  IF num.isNaN THEN 5
        ELSE IF num.n < 1 THEN 1
        ELSE IF num.n > 10 THEN 10
        ELSE num.n

calculateFallbackScore(task, index) ==
    LET score == 5 + (IF task.priority = "high" THEN 2 ELSE 0)
                   - (IF task.priority = "low" THEN 1 ELSE 0)
                   + (IF index < 2 THEN 1 ELSE 0)
    IN  Max(1, Min(10, score))

\* /(\d+\s*(day|week)|tomorrow|urgent)/i over the deadline texts of the model
HasUrgentDeadline(deadline) == deadline \in {"2 weeks", "tomorrow"}

WithScore(task, score, byRule) ==
    [id             |-> task.id,
     estimatedHours |-> task.estimatedHours,
     priority       |-> task.priority,
     order          |-> task.order,
     status         |-> task.status,
     fallback       |-> task.fallback,
     priorityScore  |-> score,
     ruleBased      |-> byRule]

\* context: [deadline, userTendency]; deadline "undefined" when the context has
\* none. The score is computed doubled, so that the 0.5 steps of the order
\* adjustment stay integers; Math.round is floor(x + 0.5).
FallbackScoreAt(task, index, context) ==
    LET doubled == 2 * ( 5
                       + (IF task.priority = "high" THEN 3 ELSE 0)
                       - (IF task.priority = "low" THEN 2 ELSE 0)
                       + (IF /\ context.deadline # "undefined"
                             /\ context.deadline # "not specified"
                             /\ HasUrgentDeadline(context.deadline) THEN 2 ELSE 0)
                       + (IF context.userTendency = "procrastinator" /\ index < 2
                          THEN 1 ELSE 0) )
                   + Max(0, 6 - index)
    IN  Max(1, Min(10, (doubled + 1) \div 2))

applyFallbackScoring(ts, context) ==
    [k \in 1..Len(ts) |-> WithScore(ts[k], FallbackScoreAt(ts[k], k - 1, context), TRUE)]

EmptyContext == [deadline |-> "undefined", userTendency |-> "balanced"]

\* scores.find(s => s.taskIndex === index): position of the first match, 0 for
\* none, -1 when a null entry is met before a match (the callback throws)
RECURSIVE FindScore(_, _, _)
FindScore(scores, index, k) ==
    IF k > Len(scores) THEN 0
    ELSE IF ~scores[k].isObject THEN -1
    ELSE IF scores[k].taskIndex = index THEN k
    ELSE FindScore(scores, index, k + 1)

\* payload of a scoring response: [t, items]
ScoreParseResponse(r, ts) ==
    IF ~ParseDirect(r) THEN applyFallbackScoring(ts, EmptyContext)
    ELSE IF r.json.t # "arr" THEN applyFallbackScoring(ts, EmptyContext)
    ELSE IF \E k \in 1..Len(ts) : FindScore(r.json.items, k - 1, 1) = -1
         THEN applyFallbackScoring(ts, EmptyContext)
    ELSE [k \in 1..Len(ts) |->
            LET at == FindScore(r.json.items, k - 1, 1)
            IN  IF at = 0
                THEN WithScore(ts[k], calculateFallbackScore(ts[k], k - 1), TRUE)
                ELSE WithScore(ts[k], validateScore(r.json.items[at].score), FALSE)]

scoreTasks(ts, context, r) ==
    IF r.kind = "fail" THEN applyFallbackScoring(ts, context)
    ELSE ScoreParseResponse(r, ts)

\* InsertByPriority with a task put before the tasks of equal score
RECURSIVE InsertByPriority_BeforeEqual(_, _)
InsertByPriority_BeforeEqual(sorted, task) ==
    IF sorted = <<>> THEN <<task>>
    ELSE IF Head(sorted).priorityScore > task.priorityScore
         THEN <<Head(sorted)>> \o InsertByPriority_BeforeEqual(Tail(sorted), task)
         ELSE <<task>> \o sorted

\* sortByPriority: [...tasks].sort((a, b) => b.priorityScore - a.priorityScore),
\* descending and stable, on a copy.  InsertByPriority puts a task behind every
\* task whose score is not smaller.
RECURSIVE InsertByPriority(_, _)
InsertByPriority(sorted, task) ==
    IF sorted = <<>> THEN <<task>>
    ELSE IF Head(sorted).priorityScore >= task.priorityScore
         THEN <<Head(sorted)>> \o InsertByPriority(Tail(sorted), task)
         ELSE <<task>> \o sorted

RECURSIVE SortByPriorityFrom(_, _, _)
SortByPriorityFrom(ts, k, acc) ==
    IF k > Len(ts) THEN acc
    ELSE SortByPriorityFrom(ts, k + 1, InsertByPriority(acc, ts[k]))

sortByPriority(ts) == SortByPriorityFrom(ts, 1, <<>>)

----------------------------------------------------------------------------
(* SchedulerAgent *)

\* task.priorityScore || 5
ScoreKey(task) == IF task.priorityScore = 0 THEN 5 ELSE task.priorityScore

\* Array.prototype.sort with (a, b) => key(b) - key(a): descending and stable.
\* InsertByScore puts a task behind every task whose key is not smaller.
RECURSIVE InsertByScore(_, _)
InsertByScore(sorted, task) ==
    IF sorted = <<>> THEN <<task>>
    ELSE IF ScoreKey(Head(sorted)) >= ScoreKey(task)
         THEN <<Head(sorted)>> \o InsertByScore(Tail(sorted), task)
         ELSE <<task>> \o sorted

RECURSIVE SortFrom(_, _, _)
SortFrom(ts, k, acc) ==
    IF k > Len(ts) THEN acc ELSE SortFrom(ts, k + 1, InsertByScore(acc, ts[k]))

SortByScore(ts) == SortFrom(ts, 1, <<>>)

calculateStartTime(hoursIntoDay, timeOfDay) ==
    LET baseHour == IF timeOfDay = "morning" THEN 9
                    ELSE IF timeOfDay = "afternoon" THEN 14
                    ELSE IF timeOfDay = "evening" THEN 18 ELSE 9
    IN  [hour    |-> baseHour + hoursIntoDay \div 1000,
         minutes |-> ((hoursIntoDay % 1000) * 60 + 500) \div 1000]

calculateTotalHours(ts) ==
    ToFixed1(SumSeq([k \in 1..Len(ts) |-> ts[k].estimatedHours]))

\* (totalHours / days).toFixed(1); -1 stands for the Infinity or NaN of no days
AveragePerDay(totalHours, days) ==
    IF days = 0 THEN -1
    ELSE ((2 * totalHours + 100 * days) \div (200 * days)) * 100

ScheduleDay(st, prefs) ==
    [day       |-> st.currentDay + 1,
     date      |-> st.currentDay,
     tasks     |-> st.currentDayTasks,
     totalHours |-> ToFixed1(st.currentDayHours),
     timeOfDay |-> prefs.timeOfDay]

\* one pass of the forEach that closes the day on overflow even when it is empty
PlaceTask_ClosesEmptyDay(st, task, prefs) ==
    LET taskDuration == task.estimatedHours
        bufferTime   == (taskDuration * prefs.bufferTimePercent) \div 100
        totalTime    == taskDuration + bufferTime
        closes       == st.currentDayHours + totalTime > prefs.availableHoursPerDay
        open         == IF closes
                        THEN [schedule        |-> Append(st.schedule, ScheduleDay(st, prefs)),
                              currentDay      |-> st.currentDay + 1,
                              currentDayHours |-> 0,
                              currentDayTasks |-> <<>>]
                        ELSE st
    IN  [schedule        |-> open.schedule,
         currentDay      |-> open.currentDay,
         currentDayHours |-> open.currentDayHours + totalTime,
         currentDayTasks |-> Append(open.currentDayTasks,
                                [taskId        |-> task.id,
                                 priorityScore |-> task.priorityScore,
                                 startTime     |-> calculateStartTime(open.currentDayHours,
                                                                      prefs.timeOfDay),
                                 duration      |-> taskDuration,
                                 bufferAfter   |-> ToFixed1(bufferTime)])]

\* one pass of the forEach of createFallbackSchedule
PlaceTask(st, task, prefs) ==
    LET taskDuration == task.estimatedHours
        bufferTime   == (taskDuration * prefs.bufferTimePercent) \div 100
        totalTime    == taskDuration + bufferTime
        closes       == /\ st.currentDayHours + totalTime > prefs.availableHoursPerDay
                        /\ Len(st.currentDayTasks) > 0
        open         == IF closes
                        THEN [schedule        |-> Append(st.schedule, ScheduleDay(st, prefs)),
                              currentDay      |-> st.currentDay + 1,
                              currentDayHours |-> 0,
                              currentDayTasks |-> <<>>]
                        ELSE st
    IN  [schedule        |-> open.schedule,
         currentDay      |-> open.currentDay,
         currentDayHours |-> open.currentDayHours + totalTime,
         currentDayTasks |-> Append(open.currentDayTasks,
                                [taskId        |-> task.id,
                                 priorityScore |-> task.priorityScore,
                                 startTime     |-> calculateStartTime(open.currentDayHours,
                                                                      prefs.timeOfDay),
                                 duration      |-> taskDuration,
                                 bufferAfter   |-> ToFixed1(bufferTime)])]

RECURSIVE PlaceAll(_, _, _, _)
PlaceAll(st, sorted, k, prefs) ==
    IF k > Len(sorted) THEN st
    ELSE PlaceAll(PlaceTask(st, sorted[k], prefs), sorted, k + 1, prefs)

\* createFallbackSchedule without the push of the final day behind the forEach
createFallbackSchedule_NoFinalDay(ts, prefs) ==
    LET sortedTasks == SortByScore(ts)
        start == [schedule |-> <<>>, currentDay |-> 0, currentDayHours |-> 0,
                  currentDayTasks |-> <<>>]
        end   == PlaceAll(start, sortedTasks, 1, prefs)
        days  == end.schedule
        totalHours == calculateTotalHours(ts)
    IN  [schedule |-> days,
         summary  |-> [totalDays          |-> Len(days),
                       totalHours         |-> totalHours,
                       averageHoursPerDay |-> AveragePerDay(totalHours, Len(days)),
                       tasksScheduled     |-> Len(ts)],
         fallback |-> TRUE,
         preferences |-> prefs]

createFallbackSchedule(ts, prefs) ==
    LET sortedTasks == SortByScore(ts)
        start == [schedule |-> <<>>, currentDay |-> 0, currentDayHours |-> 0,
                  currentDayTasks |-> <<>>]
        end   == PlaceAll(start, sortedTasks, 1, prefs)
        days  == IF Len(end.currentDayTasks) > 0
                 THEN Append(end.schedule, ScheduleDay(end, prefs))
                 ELSE end.schedule
        totalHours == calculateTotalHours(ts)
    IN  [schedule |-> days,
         summary  |-> [totalDays          |-> Len(days),
                       totalHours         |-> totalHours,
                       averageHoursPerDay |-> AveragePerDay(totalHours, Len(days)),
                       tasksScheduled     |-> Len(ts)],
         fallback |-> TRUE,
         preferences |-> prefs]

\* a generated day [isObject, day, tasks, totalHours] (0: absent; absent tasks are
\* the empty list) and a generated task instance, which the code takes over as is
GenDay(d, insts, h) == [isObject |-> TRUE, day |-> d, tasks |-> insts, totalHours |-> h]
NullDay == [isObject |-> FALSE, day |-> 0, tasks |-> <<>>, totalHours |-> 0]
GenInstance(id, d) ==
    [taskId |-> id, priorityScore |-> 0, startTime |-> [hour |-> 9, minutes |-> 0],
     duration |-> d, bufferAfter |-> 0]

\* payload of a schedule response: [t, hasSchedule, days, totalDays, totalHours];
\* hasSchedule: the schedule field is an array; totalDays, totalHours: the summary's
\* (0: absent)
SchedParseResponse(r, ts, prefs) ==
    IF ~ParseDirect(r) THEN createFallbackSchedule(ts, prefs)
    ELSE IF r.json.t # "obj" THEN createFallbackSchedule(ts, prefs)
    ELSE IF ~r.json.hasSchedule THEN createFallbackSchedule(ts, prefs)
    ELSE IF \E k \in 1..Len(r.json.days) : ~r.json.days[k].isObject
         THEN createFallbackSchedule(ts, prefs)
    ELSE LET n == Len(r.json.days)
             totalHours == IF r.json.totalHours = 0 THEN calculateTotalHours(ts)
                           ELSE r.json.totalHours
         IN  [schedule |-> [k \in 1..n |->
                              [day        |-> IF r.json.days[k].day = 0 THEN k
                                              ELSE r.json.days[k].day,
                               date       |-> k - 1,
                               tasks      |-> r.json.days[k].tasks,
                               totalHours |-> r.json.days[k].totalHours,
                               timeOfDay  |-> "morning"]],
              summary  |-> [totalDays          |-> IF r.json.totalDays = 0 THEN n
                                                   ELSE r.json.totalDays,
                            totalHours         |-> totalHours,
                            averageHoursPerDay |-> AveragePerDay(calculateTotalHours(ts), n),
                            tasksScheduled     |-> Len(ts)],
              fallback |-> FALSE,
              preferences |-> prefs]

\* buildPrompt sorts the array it is given, in place, before the generation call;
\* parseResponse and createFallbackSchedule then read the sorted array
createSchedule(ts, prefs, r) ==
    LET sorted == SortByScore(ts)
    IN  IF r.kind = "fail" THEN createFallbackSchedule(sorted, prefs)
        ELSE SchedParseResponse(r, sorted, prefs)

\* every scheduled task instance of a schedule, day after day
RECURSIVE Instances(_)
Instances(days) ==
    IF days = <<>> THEN <<>> ELSE Head(days).tasks \o Instances(Tail(days))

----------------------------------------------------------------------------
(* ReflectionAgent.needsReplanning *)

\* reflection: [progressAnalyzed |-> [totalTasks, completed],
\*              adjustmentsMade  |-> [scheduleChanges, priorityChanges]], the two
\* lists by their length, -1 for an absent list (undefined > n is false)
\* needsReplanning with the schedule-change threshold off by one
needsReplanning_From3Changes(reflection) ==
    LET pa == reflection.progressAnalyzed
        am == reflection.adjustmentsMade
    IN  \/ pa.totalTasks > 0 /\ pa.completed * 100 < 50 * pa.totalTasks
        \/ am.scheduleChanges >= 3
        \/ am.priorityChanges > 2

needsReplanning(reflection) ==
    LET pa == reflection.progressAnalyzed
        am == reflection.adjustmentsMade
        \* completionRate < 50, the rate being completed / totalTasks * 100, or
        \* 100 without tasks
        rateBelow50 == IF pa.totalTasks > 0
                       THEN pa.completed * 100 < 50 * pa.totalTasks
                       ELSE FALSE
    IN  IF rateBelow50 THEN TRUE
        ELSE IF am.scheduleChanges > 3 THEN TRUE
        ELSE IF am.priorityChanges > 2 THEN TRUE
        ELSE FALSE

----------------------------------------------------------------------------
(* ReflectionAgent.reflect *)

\* A progress observation: [taskId, status, evening]; evening: completedTime is
\* given and its hour is 18 or later.
\* A memory: [hasPatterns, patterns, hasStats, stats]; patterns is a list of
\* [pattern, occurrences], pattern "undefined" for an entry without that key,
\* occurrences 0 for an entry without that one.
\* An entry of a generated memoryUpdates array: [isObject, pattern].
MemoryUpdate(key) == [isObject |-> TRUE, pattern |-> key]
NullUpdate == [isObject |-> FALSE, pattern |-> "undefined"]

NoStats == [totalTasksAttempted |-> 0, totalTasksCompleted |-> 0,
            overallCompletionRate |-> 0]
\* the memory {} that reflect and adjustPlan default to
EmptyMemory == [hasPatterns |-> FALSE, patterns |-> <<>>, hasStats |-> FALSE,
                stats |-> NoStats]

CountStatus(userProgress, statuses) ==
    Cardinality({k \in 1..Len(userProgress) : userProgress[k].status \in statuses})

\* patterns.findIndex(p => p.pattern === update.pattern): the position of the
\* first match, 0 for none; reading update.pattern of a null update throws, which
\* happens as soon as there is a pattern to compare with
RECURSIVE FindPattern(_, _, _)
FindPattern(patterns, key, k) ==
    IF k > Len(patterns) THEN 0
    ELSE IF patterns[k].pattern = key THEN k
    ELSE FindPattern(patterns, key, k + 1)

\* one pass of the forEach of updateMemory without the findIndex: always a push
UpsertPattern_AlwaysPush(patterns, update) ==
    Append(patterns, [pattern |-> update.pattern, occurrences |-> 1])

\* one pass of the forEach of updateMemory, for an update that does not throw
UpsertPattern(patterns, update) ==
    LET existingIndex == FindPattern(patterns, update.pattern, 1)
    IN  IF existingIndex > 0
        THEN [patterns EXCEPT ![existingIndex] =
                 [pattern     |-> update.pattern,
                  occurrences |-> (IF patterns[existingIndex].occurrences = 0 THEN 1
                                   ELSE patterns[existingIndex].occurrences) + 1]]
        ELSE Append(patterns, [pattern |-> update.pattern, occurrences |-> 1])

\* the forEach from update k on: the patterns array as it is left, and whether a
\* callback threw (the array keeps what the earlier passes did to it)
RECURSIVE UpsertAll(_, _, _)
UpsertAll(patterns, newPatterns, k) ==
    IF k > Len(newPatterns) THEN [patterns |-> patterns, threw |-> FALSE]
    ELSE IF ~newPatterns[k].isObject /\ Len(patterns) > 0
         THEN [patterns |-> patterns, threw |-> TRUE]
    ELSE UpsertAll(UpsertPattern(patterns, newPatterns[k]), newPatterns, k + 1)

\* (completedCount / totalCount) * 100, toFixed(1): in tenths of a percent
CompletionRateTenths(completedCount, totalCount) ==
    IF totalCount > 0
    THEN ((2000 * completedCount + totalCount) \div (2 * totalCount))
    ELSE 0

\* memoryUpdates: [present, items]; present FALSE is an absent field.
\* Gives [threw, value, patterns]: the memory returned, and the patterns array of
\* the memory passed in as the call leaves it.
updateMemory(currentMemory, memoryUpdates, userProgress) ==
    LET newPatterns == IF memoryUpdates.present THEN memoryUpdates.items ELSE <<>>
        done == UpsertAll(currentMemory.patterns, newPatterns, 1)
        completedCount == CountStatus(userProgress, {"completed"})
        totalCount == Len(userProgress)
    IN  [threw    |-> done.threw,
         patterns |-> done.patterns,
         value    |-> [hasPatterns |-> TRUE,
                       patterns    |-> done.patterns,
                       hasStats    |-> TRUE,
                       stats       |-> [totalTasksAttempted   |-> totalCount,
                                        totalTasksCompleted   |-> completedCount,
                                        overallCompletionRate |->
                                            CompletionRateTenths(completedCount, totalCount)]]]

\* adjustments of a generated reflection: [present, scheduleChanges,
\* hasPriorityChanges, priorityChanges, recommendedBufferPercent]; present FALSE is
\* an absent field, scheduleChanges the length of that list (-1: absent),
\* priorityChanges a list of [taskId, newPriority], recommendedBufferPercent 0 an
\* absent one
NoAdjustments ==
    [present |-> FALSE, scheduleChanges |-> -1, hasPriorityChanges |-> FALSE,
     priorityChanges |-> <<>>, recommendedBufferPercent |-> 0]

\* priorityChanges.find(pc => pc.taskId === id): the position of the first match,
\* 0 for none
RECURSIVE FindPriorityChange(_, _, _)
FindPriorityChange(priorityChanges, id, k) ==
    IF k > Len(priorityChanges) THEN 0
    ELSE IF priorityChanges[k].taskId = id THEN k
    ELSE FindPriorityChange(priorityChanges, id, k + 1)

\* applyAdjustments re-buffering a re-prioritised instance as well
AdjustInstance_RebuffersAll(task, adjustments) ==
    LET at == FindPriorityChange(adjustments.priorityChanges, task.taskId, 1)
        buffered == IF adjustments.recommendedBufferPercent # 0
                    THEN [task EXCEPT !.bufferAfter =
                             ToFixed1((task.duration * adjustments.recommendedBufferPercent)
                                          \div 100)]
                    ELSE task
    IN  IF at > 0
        THEN [buffered EXCEPT !.priorityScore = adjustments.priorityChanges[at].newPriority]
        ELSE buffered

\* the callback of day.tasks.map in applyAdjustments
AdjustInstance(task, adjustments) ==
    LET at == FindPriorityChange(adjustments.priorityChanges, task.taskId, 1)
    IN  IF at > 0
        THEN [task EXCEPT !.priorityScore = adjustments.priorityChanges[at].newPriority]
        ELSE IF adjustments.recommendedBufferPercent # 0
        THEN [task EXCEPT !.bufferAfter =
                 ToFixed1((task.duration * adjustments.recommendedBufferPercent) \div 100)]
        ELSE task

\* the callback of currentPlan.schedule.map in applyAdjustments
AdjustDay(day, adjustments) ==
    LET adjustedTasks == [k \in 1..Len(day.tasks) |-> AdjustInstance(day.tasks[k], adjustments)]
    IN  [day        |-> day.day,
         date       |-> day.date,
         tasks      |-> adjustedTasks,
         totalHours |-> ToFixed1(SumSeq([k \in 1..Len(adjustedTasks) |->
                            adjustedTasks[k].duration + adjustedTasks[k].bufferAfter])),
         timeOfDay  |-> day.timeOfDay,
         adjusted   |-> TRUE]

applyAdjustments(currentPlan, adjustments) ==
    IF ~adjustments.present THEN currentPlan
    ELSE [schedule     |-> [k \in 1..Len(currentPlan.schedule) |->
                               AdjustDay(currentPlan.schedule[k], adjustments)],
          summary      |-> currentPlan.summary,
          fallback     |-> currentPlan.fallback,
          preferences  |-> currentPlan.preferences,
          lastAdjusted |-> TRUE]

\* the recommended buffer with its first threshold at 50% instead of 60%
RecommendedBuffer_From50(completed, total) ==
    IF total = 0 \/ completed * 100 < 50 * total THEN 30
    ELSE IF completed * 100 < 80 * total THEN 20 ELSE 15

\* completionRate < 60 ? 30 : completionRate < 80 ? 20 : 15, the rate being
\* completed / total * 100, or 0 without observations
RecommendedBuffer(completed, total) ==
    IF total = 0 \/ completed * 100 < 60 * total THEN 30
    ELSE IF completed * 100 < 80 * total THEN 20 ELSE 15

\* insights: the number of insights; adjustmentsMade.scheduleChanges is that list
createFallbackReflection(currentPlan, userProgress, userMemory) ==
    LET completed == CountStatus(userProgress, {"completed"})
        missed == CountStatus(userProgress, {"missed", "incomplete"})
        total == Len(userProgress)
        \* completionRate < 50
        rateBelow50 == IF total > 0 THEN completed * 100 < 50 * total ELSE TRUE
        evening == Cardinality({k \in 1..Len(userProgress) :
                                   /\ userProgress[k].status = "completed"
                                   /\ userProgress[k].evening})
        insights == (IF rateBelow50 THEN 1 ELSE 0)
                    + (IF missed > completed THEN 1 ELSE 0)
                    + (IF 10 * evening > 6 * completed THEN 1 ELSE 0)
        recommendedBuffer == RecommendedBuffer(completed, total)
    IN  [adjustedPlan     |-> currentPlan,
         insights         |-> insights,
         memoryUpdates    |-> <<>>,
         updatedMemory    |-> userMemory,
         adjustmentsMade  |->
             [present |-> TRUE, scheduleChanges |-> insights,
              hasPriorityChanges |-> FALSE, priorityChanges |-> <<>>,
              recommendedBufferPercent |-> recommendedBuffer],
         progressAnalyzed |-> [totalTasks |-> total, completed |-> completed,
                               missed |-> missed],
         fallback         |-> TRUE]

\* updateMemory working on a copy of the patterns array: the object is left as it was
MemoryAfter_Copied(userMemory, patterns) == userMemory

\* the memory object the caller passed, after updateMemory worked on its patterns
\* array; a memory without patterns has none to work on
MemoryAfter(userMemory, patterns) ==
    IF userMemory.hasPatterns THEN [userMemory EXCEPT !.patterns = patterns]
    ELSE userMemory

\* payload of a reflection response: [t, adjustments, memoryUpdates, insights].
\* Gives [value, memoryAfter]: the reflection returned, and the caller's userMemory
\* object after the call.
ReflectParseResponse(r, currentPlan, userProgress, userMemory) ==
    IF ~ParseDirect(r) \/ r.json.t = "null"
    THEN [value       |-> createFallbackReflection(currentPlan, userProgress, userMemory),
          memoryAfter |-> userMemory]
    ELSE LET adjustedPlan == applyAdjustments(currentPlan, r.json.adjustments)
             updated == updateMemory(userMemory, r.json.memoryUpdates, userProgress)
             after == MemoryAfter(userMemory, updated.patterns)
         IN  IF updated.threw
             THEN [value       |-> createFallbackReflection(currentPlan, userProgress, after),
                   memoryAfter |-> after]
             ELSE [value |->
                      [adjustedPlan     |-> adjustedPlan,
                       insights         |-> r.json.insights,
                       memoryUpdates    |-> IF r.json.memoryUpdates.present
                                            THEN r.json.memoryUpdates.items ELSE <<>>,
                       updatedMemory    |-> updated.value,
                       adjustmentsMade  |-> r.json.adjustments,
                       progressAnalyzed |->
                           [totalTasks |-> Len(userProgress),
                            completed  |-> CountStatus(userProgress, {"completed"}),
                            missed     |-> CountStatus(userProgress, {"missed", "incomplete"})],
                       fallback         |-> FALSE],
                   memoryAfter |-> after]

reflect(currentPlan, userProgress, userMemory, r) ==
    IF r.kind = "fail"
    THEN [value       |-> createFallbackReflection(currentPlan, userProgress, userMemory),
          memoryAfter |-> userMemory]
    ELSE ReflectParseResponse(r, currentPlan, userProgress, userMemory)

----------------------------------------------------------------------------
(* AgentOrchestrator.adjustPlan *)

\* reflection.needsReplanning: the object reflect returns is an object literal
\* without such a property (needsReplanning is a method of the agent), so the
\* test of adjustPlan reads undefined
HasNeedsReplanning(reflection) == FALSE

\* the reflection as needsReplanning reads it
ReplanningView(reflection) ==
    [progressAnalyzed |-> [totalTasks |-> reflection.progressAnalyzed.totalTasks,
                           completed  |-> reflection.progressAnalyzed.completed],
     adjustmentsMade  |->
         [scheduleChanges |-> reflection.adjustmentsMade.scheduleChanges,
          priorityChanges |-> IF reflection.adjustmentsMade.hasPriorityChanges
                              THEN Len(reflection.adjustmentsMade.priorityChanges)
                              ELSE -1]]

\* userProgress.find(p => p.taskId === id && p.status === 'completed')
IsCompleted(userProgress, id) ==
    \E k \in 1..Len(userProgress) :
        userProgress[k].taskId = id /\ userProgress[k].status = "completed"

\* tasks.filter(keep), in order
RECURSIVE RemainingTasks(_, _)
RemainingTasks(ts, userProgress) ==
    IF ts = <<>> THEN <<>>
    ELSE (IF IsCompleted(userProgress, Head(ts).id) THEN <<>> ELSE <<Head(ts)>>)
         \o RemainingTasks(Tail(ts), userProgress)

\* the callback of currentPlan.tasks.map in adjustPlan
RescoreTask(task, priorityChanges) ==
    LET at == FindPriorityChange(priorityChanges, task.id, 1)
    IN  IF at > 0 THEN [task EXCEPT !.priorityScore = priorityChanges[at].newPriority]
        ELSE task

\* currentPlan: [goal, tasks, schedule]; r answers the generation call of reflect,
\* r2 the one of createSchedule if the run gets there.  Gives the object returned,
\* with createScheduleCalls: the task lists createSchedule was called with.
adjustPlan(currentPlan, userProgress, userMemory, r, r2) ==
    LET reflection == reflect(currentPlan.schedule, userProgress, userMemory, r).value
        made == reflection.adjustmentsMade
        rescore == made.hasPriorityChanges /\ Len(made.priorityChanges) > 0
        adjustedTasks == IF rescore
                         THEN [k \in 1..Len(currentPlan.tasks) |->
                                  RescoreTask(currentPlan.tasks[k], made.priorityChanges)]
                         ELSE currentPlan.tasks
        replan == HasNeedsReplanning(reflection) /\ needsReplanning(ReplanningView(reflection))
        remainingTasks == RemainingTasks(adjustedTasks, userProgress)
        reschedule == replan /\ Len(remainingTasks) > 0
        prefs == currentPlan.schedule.preferences
        updatedPrefs == [prefs EXCEPT !.bufferTimePercent =
                            IF made.recommendedBufferPercent # 0
                            THEN made.recommendedBufferPercent
                            ELSE IF prefs.bufferTimePercent # 0 THEN prefs.bufferTimePercent
                            ELSE 20]
        newSchedule == IF reschedule THEN createSchedule(remainingTasks, updatedPrefs, r2)
                       ELSE reflection.adjustedPlan
    IN  [success      |-> TRUE,
         adjustedPlan |-> [goal       |-> currentPlan.goal,
                           tasks      |-> adjustedTasks,
                           schedule   |-> newSchedule,
                           reflection |-> [memoryUpdates   |-> reflection.memoryUpdates,
                                           adjustmentsMade |-> reflection.adjustmentsMade]],
         userMemory   |-> reflection.updatedMemory,
         executionLog |->
             <<"ADJUSTMENT_START", "REFLECTION_START", "REFLECTION_COMPLETE">>
             \o (IF rescore THEN <<"RESCORE_START", "RESCORE_COMPLETE">> ELSE <<>>)
             \o (IF replan THEN <<"RESCHEDULE_START">> ELSE <<>>)
             \o (IF reschedule THEN <<"RESCHEDULE_COMPLETE">> ELSE <<>>)
             \o <<"ADJUSTMENT_COMPLETE">>,
         createScheduleCalls |-> IF reschedule THEN <<remainingTasks>> ELSE <<>>]

----------------------------------------------------------------------------
(* AgentOrchestrator.getNextTask *)

\* plan.tasks.filter(task => !completedTaskIds.includes(task.id)), in order
RECURSIVE NotCompleted(_, _)
NotCompleted(ts, completedTaskIds) ==
    IF ts = <<>> THEN <<>>
    ELSE (IF Head(ts).id \in completedTaskIds THEN <<>> ELSE <<Head(ts)>>)
         \o NotCompleted(Tail(ts), completedTaskIds)

\* gives the empty sequence for null, the task in a sequence otherwise
getNextTask(plan, completedTaskIds) ==
    LET remainingTasks == NotCompleted(plan.tasks, completedTaskIds)
    IN  IF Len(remainingTasks) = 0 THEN <<>>
        ELSE <<sortByPriority(remainingTasks)[1]>>

----------------------------------------------------------------------------
(* Inputs of the model: what the generation backend may answer *)

GoalJson(c, d, sub) == [t |-> "obj", complexity |-> c, parsedDeadline |-> d, subject |-> sub]
NullJson    == [t |-> "null"]
GarbageJson == [t |-> "garbage"]
ArrJson(items) == [t |-> "arr", items |-> items]
\* an object where an array is expected, an array where an object is
NonArrayJson == [t |-> "obj", items |-> <<>>]
NonObjectJson == [t |-> "arr", complexity |-> "missing", parsedDeadline |-> "missing",
                  subject |-> "missing"]
SchedJson(hasSchedule, days, totalDays, totalHours) ==
    [t |-> "obj", hasSchedule |-> hasSchedule, days |-> days,
     totalDays |-> totalDays, totalHours |-> totalHours]

Forms == {"bare", "fenced", "prose"}
Complexities == {"missing", "low", "medium", "high", "HIGH", "bogus", "nonstring"}

\* every goal-analysis answer
GoalResponsesAll ==
    {GenFail}
    \cup { GenText(f, j) : f \in Forms, j \in {GarbageJson, NullJson, NonObjectJson} }
    \cup { GenText(f, GoalJson(c, d, "given")) :
             f \in Forms, c \in Complexities, d \in {"missing", "2 weeks", "nonstring"} }
    \cup { GenText("bare", GoalJson("medium", d, "missing")) : d \in Deadlines }

\* the goal-analysis answers of an orchestrated run
GoalResponses ==
    { GenFail,
      GenText("bare", GarbageJson),
      GenText("prose", GoalJson("high", "2 weeks", "given")),
      GenText("fenced", GoalJson("bogus", "missing", "missing")),
      GenText("bare", GoalJson("low", "tomorrow", "given")),
      GenText("bare", GoalJson("medium", "nonstring", "given")) }

HoursInputs ==
    { RawMissing, RawText, RawNum(0), RawNum(-1000), RawNum(100), RawNum(240),
      RawNum(250), RawNum(2000), RawNum(2740), RawNum(2750), RawNum(40000),
      RawNum(40001), RawNum(50000) }
PriorityInputs == {"missing", "high", "medium", "low", "HIGH", "bogus", "nonstring"}

GenTasks ==
    { GenTask(h, "high", 0) : h \in HoursInputs }
    \cup { GenTask(RawNum(2000), p, 0) : p \in PriorityInputs }
    \cup { GenTask(RawNum(1500), "low", 7), NullEntry }

\* every decomposition answer
DecomposeResponsesAll ==
    {GenFail}
    \cup { GenText(f, j) : f \in Forms, j \in {GarbageJson, NullJson, NonArrayJson} }
    \cup { GenText("bare", ArrJson(items)) : items \in SeqsUpTo(GenTasks, MaxGenItems) }
    \cup { GenText(f, ArrJson(<<GenTask(RawNum(2000), "high", 0)>>)) : f \in Forms }

\* the decomposition answers of an orchestrated run
DecomposeResponses ==
    { GenFail,
      GenText("bare", GarbageJson),
      GenText("bare", NonArrayJson),
      GenText("bare", ArrJson(<<>>)),
      GenText("fenced", ArrJson(<<GenTask(RawNum(2000), "low", 0),
                                  GenTask(RawNum(3500), "high", 0)>>)),
      GenText("bare", ArrJson(<<GenTask(RawNum(200), "medium", 0)>>)) }

ScoreInputs ==
    { RawMissing, RawText, RawNum(-3000), RawNum(0), RawNum(1000), RawNum(7900),
      RawNum(10000), RawNum(11000) }

GenScores ==
    { GenScore(i, sc) : i \in {0, 1}, sc \in ScoreInputs }
    \cup { GenScore(-1, RawNum(5000)), GenScore(4, RawNum(9000)), NullScore }

\* every scoring answer
ScoreResponsesAll ==
    {GenFail}
    \cup { GenText(f, j) : f \in {"bare", "prose"}, j \in {GarbageJson, NullJson, NonArrayJson} }
    \cup { GenText("bare", ArrJson(items)) : items \in SeqsUpTo(GenScores, MaxGenItems) }
    \cup { GenText("prose", ArrJson(<<GenScore(0, RawNum(10000))>>)) }

\* the scoring answers of an orchestrated run
ScoreResponses ==
    { GenFail,
      GenText("bare", GarbageJson),
      GenText("bare", ArrJson(<<GenScore(1, RawNum(9000))>>)),
      GenText("fenced", ArrJson(<<GenScore(0, RawNum(15000)), GenScore(1, RawText)>>)) }

GenInstances == { GenInstance(-1, 1000), GenInstance(0, 2000), GenInstance(9, 500) }
GenDays ==
    { GenDay(0, insts, 0) : insts \in SeqsUpTo(GenInstances, MaxGenItems) }
    \cup { GenDay(3, <<>>, 1000), NullDay }

\* every schedule answer
ScheduleResponsesAll ==
    {GenFail}
    \cup { GenText(f, j) : f \in {"bare", "prose"}, j \in {GarbageJson, NullJson, ArrJson(<<>>)} }
    \cup { GenText("bare", SchedJson(FALSE, <<>>, 0, 0)) }
    \cup { GenText("bare", SchedJson(TRUE, days, 0, 0)) : days \in SeqsUpTo(GenDays, 2) }
    \cup { GenText("fenced", SchedJson(TRUE, <<d>>, 5, 20000)) : d \in GenDays }
    \cup { GenText("prose", SchedJson(TRUE, <<GenDay(0, <<GenInstance(0, 2000)>>, 0)>>, 0, 0)) }

\* the schedule answers of an orchestrated run
ScheduleResponses ==
    { GenFail,
      GenText("bare", GarbageJson),
      GenText("bare", SchedJson(TRUE, <<GenDay(0, <<GenInstance(-1, 1000)>>, 1000)>>, 0, 0)),
      GenText("fenced", SchedJson(TRUE, <<>>, 0, 0)) }

\* the reflection answers: payload [t, adjustments, memoryUpdates, insights]
ReflectJson(adjustments, memoryUpdates) ==
    [t |-> "obj", adjustments |-> adjustments, memoryUpdates |-> memoryUpdates,
     insights |-> 1]
\* a JSON array, number or string where the object is expected: every field absent
NonObjectReflectJson ==
    [t |-> "arr", adjustments |-> NoAdjustments,
     memoryUpdates |-> [present |-> FALSE, items |-> <<>>], insights |-> 0]

PriorityChange(id, p) == [taskId |-> id, newPriority |-> p]
Adjustments(sc, hasPc, pcs, buffer) ==
    [present |-> TRUE, scheduleChanges |-> sc, hasPriorityChanges |-> hasPc,
     priorityChanges |-> pcs, recommendedBufferPercent |-> buffer]

AdjustmentInputs ==
    { NoAdjustments,
      Adjustments(-1, FALSE, <<>>, 0),
      Adjustments(0, TRUE, <<>>, 25),
      Adjustments(1, TRUE, <<PriorityChange(0, 9)>>, 0),
      Adjustments(MaxChanges - 1, TRUE, <<PriorityChange(1, 15), PriorityChange(0, 2)>>, 30),
      Adjustments(MaxChanges, FALSE, <<>>, 25),
      Adjustments(2, TRUE, <<PriorityChange(0, 9), PriorityChange(1, 0),
                             PriorityChange(7, 3)>>, 0) }

NoMemoryUpdates == [present |-> FALSE, items |-> <<>>]
MemoryUpdates(items) == [present |-> TRUE, items |-> items]
PatternKeys == {"evening_productivity", "monday_struggles"}
UpdateInputs == { MemoryUpdate(key) : key \in PatternKeys \cup {"undefined"} } \cup {NullUpdate}

\* answers that only name patterns
MemoryResponses ==
    { GenText("bare", ReflectJson(NoAdjustments, MemoryUpdates(items))) :
        items \in SeqsUpTo({ MemoryUpdate(key) : key \in PatternKeys }, MaxGenItems) }

\* every reflection answer
ReflectResponsesAll ==
    {GenFail}
    \cup { GenText(f, j) : f \in {"bare", "prose"}, j \in {GarbageJson, NullJson} }
    \cup { GenText("bare", NonObjectReflectJson),
           GenText("prose", ReflectJson(NoAdjustments, NoMemoryUpdates)) }
    \cup { GenText(f, ReflectJson(a, NoMemoryUpdates)) :
             f \in {"bare", "fenced"}, a \in AdjustmentInputs }
    \cup { GenText("bare", ReflectJson(NoAdjustments, MemoryUpdates(items))) :
             items \in SeqsUpTo(UpdateInputs, MaxGenItems) }
    \cup { GenText("bare", ReflectJson(Adjustments(0, TRUE, <<PriorityChange(0, 9)>>, 25),
                                       MemoryUpdates(<<NullUpdate>>))) }

----------------------------------------------------------------------------
(* AgentOrchestrator.createStudyPlan *)

\* options: userContext.tendency and the schedulingPreferences (0: not given)
OptionSets ==
    { [tendency |-> "balanced", availableHoursPerDay |-> 4000,
       bufferTimePercent |-> 20, timeOfDay |-> "morning"],
      [tendency |-> "procrastinator", availableHoursPerDay |-> 0,
       bufferTimePercent |-> 0, timeOfDay |-> "afternoon"] }

NoGoalText == [tokens |-> 0, mentionsDeadline |-> FALSE]
NoOptions  == [tendency |-> "balanced", availableHoursPerDay |-> 0,
               bufferTimePercent |-> 0, timeOfDay |-> "morning"]
NoAnalysis == [originalGoal |-> NoGoalText, parsedDeadline |-> "not specified",
               subject |-> "none", complexity |-> "none", fallback |-> FALSE]
NoPreferences == [availableHoursPerDay |-> 0, bufferTimePercent |-> 0,
                  timeOfDay |-> "morning"]
NoSchedule == [schedule |-> <<>>,
               summary  |-> [totalDays |-> 0, totalHours |-> 0,
                             averageHoursPerDay |-> 0, tasksScheduled |-> 0],
               fallback |-> FALSE,
               preferences |-> NoPreferences]
\* plan: the empty sequence when the result carries no plan
NoResult == [success |-> FALSE, error |-> "", failedAt |-> "", plan |-> <<>>]

buildUserContext(userContext, goal) ==
    [deadline |-> goal.parsedDeadline, userTendency |-> userContext.tendency]

\* deadline.toLowerCase() throws on a deadline that is no string
estimateAvailableHours(deadline) ==
    IF deadline = "not specified" THEN Returned(4000)
    ELSE IF deadline = "nonstring" THEN Threw
    ELSE IF deadline = "tomorrow" THEN Returned(6000)
    ELSE IF deadline = "2 weeks" THEN Returned(5000)
    ELSE Returned(4000)

\* called only where estimateAvailableHours returns
buildSchedulingPreferences(preferences, goal) ==
    [availableHoursPerDay |-> IF preferences.availableHoursPerDay # 0
                              THEN preferences.availableHoursPerDay
                              ELSE estimateAvailableHours(goal.parsedDeadline).value,
     bufferTimePercent    |-> IF preferences.bufferTimePercent # 0
                              THEN preferences.bufferTimePercent ELSE 20,
     timeOfDay            |-> preferences.timeOfDay]

IsCompleteStep(step) ==
    step \in {"STEP_1_COMPLETE", "STEP_2_COMPLETE", "STEP_3_COMPLETE",
              "STEP_4_COMPLETE", "ORCHESTRATION_COMPLETE"}

RECURSIVE getLastCompletedStep(_)
getLastCompletedStep(log) ==
    IF log = <<>> THEN "NONE"
    ELSE IF IsCompleteStep(log[Len(log)]) THEN log[Len(log)]
    ELSE getLastCompletedStep(SubSeq(log, 1, Len(log) - 1))

\* a catch block that lets the run go on after a failed goal analysis
Abort_GoesOn(log, message) ==
    /\ executionLog' = Append(log, "ORCHESTRATION_ERROR")
    /\ result' = [success  |-> FALSE,
                  error    |-> message,
                  failedAt |-> getLastCompletedStep(Append(log, "ORCHESTRATION_ERROR")),
                  plan     |-> <<>>]
    /\ pc' = IF pc = "STEP_1" THEN "STEP_2" ELSE "done"

\* the catch block of createStudyPlan, entered with the log as it stands
Abort(log, message) ==
    /\ executionLog' = Append(log, "ORCHESTRATION_ERROR")
    /\ result' = [success  |-> FALSE,
                  error    |-> message,
                  failedAt |-> getLastCompletedStep(Append(log, "ORCHESTRATION_ERROR")),
                  plan     |-> <<>>]
    /\ pc' = "done"

CreateStudyPlanCall ==
    /\ Idle
    /\ \E g \in GoalTexts, o \in OptionSets :
          /\ goalText' = g
          /\ options' = o
    /\ executionLog' = <<"ORCHESTRATION_START", "STEP_1_START">>
    /\ pc' = "STEP_1"
    /\ UNCHANGED <<analyzedGoal, tasks, scoredTasks, schedule, result, genLog>>
    /\ UNCHANGED agentVars
    /\ UNCHANGED svcVars

GoalAnalysisStep ==
    /\ pc = "STEP_1"
    /\ \E r \in GoalResponses :
          LET out == analyzeGoal(goalText, r)
          IN  /\ genLog' = Append(genLog, r.kind)
              /\ IF out.threw
                 THEN /\ Abort(executionLog, "Failed to analyze goal")
                      /\ UNCHANGED analyzedGoal
                 ELSE /\ analyzedGoal' = out.value
                      /\ executionLog' = executionLog \o <<"STEP_1_COMPLETE", "STEP_2_START">>
                      /\ pc' = "STEP_2"
                      /\ UNCHANGED result
    /\ UNCHANGED <<goalText, options, tasks, scoredTasks, schedule>>
    /\ UNCHANGED agentVars
    /\ UNCHANGED svcVars

DecompositionStep ==
    /\ pc = "STEP_2"
    /\ \E r \in DecomposeResponses :
          LET out == decompose(analyzedGoal, r)
          IN  /\ genLog' = Append(genLog, r.kind)
              /\ IF out.threw
                 THEN /\ Abort(executionLog, "Failed to decompose tasks")
                      /\ UNCHANGED tasks
                 ELSE /\ tasks' = out.value
                      /\ IF Len(out.value) = 0
                         THEN Abort(Append(executionLog, "STEP_2_COMPLETE"),
                                    "Task decomposition produced no tasks")
                         ELSE /\ executionLog' =
                                    executionLog \o <<"STEP_2_COMPLETE", "STEP_3_START">>
                              /\ pc' = "STEP_3"
                              /\ UNCHANGED result
    /\ UNCHANGED <<goalText, options, analyzedGoal, scoredTasks, schedule>>
    /\ UNCHANGED agentVars
    /\ UNCHANGED svcVars

\* scoreTasks resolves; the run goes on to the createSchedule call, whose
\* buildPrompt sorts scoredTasks in place before the generation call is awaited
ScoringStep ==
    /\ pc = "STEP_3"
    /\ \E r \in ScoreResponses :
          LET userContext == buildUserContext(options, analyzedGoal)
              scored == scoreTasks(tasks, userContext, r)
              log == executionLog \o <<"STEP_3_COMPLETE", "STEP_4_START">>
          IN  /\ genLog' = Append(genLog, r.kind)
              /\ IF estimateAvailableHours(analyzedGoal.parsedDeadline).threw
                 THEN /\ scoredTasks' = scored
                      /\ Abort(log, "deadline.toLowerCase is not a function")
                 ELSE /\ scoredTasks' = SortByScore(scored)
                      /\ executionLog' = log
                      /\ pc' = "STEP_4"
                      /\ UNCHANGED result
    /\ UNCHANGED <<goalText, options, analyzedGoal, tasks, schedule>>
    /\ UNCHANGED agentVars
    /\ UNCHANGED svcVars

ScheduleStep ==
    /\ pc = "STEP_4"
    /\ \E r \in ScheduleResponses :
          LET schedulingPrefs == buildSchedulingPreferences(options, analyzedGoal)
              made == createSchedule(scoredTasks, schedulingPrefs, r)
          IN  /\ genLog' = Append(genLog, r.kind)
              /\ schedule' = made
              /\ result' = [success  |-> TRUE,
                            error    |-> "",
                            failedAt |-> "",
                            plan     |-> <<[goal       |-> analyzedGoal,
                                            tasks      |-> scoredTasks,
                                            schedule   |-> made,
                                            totalTasks |-> Len(tasks),
                                            totalHours |-> made.summary.totalHours]>>]
    /\ executionLog' = executionLog \o <<"STEP_4_COMPLETE", "ORCHESTRATION_COMPLETE">>
    /\ pc' = "done"
    /\ UNCHANGED <<goalText, options, analyzedGoal, tasks, scoredTasks>>
    /\ UNCHANGED agentVars
    /\ UNCHANGED svcVars

----------------------------------------------------------------------------
(* Direct calls of the agents' methods.  The agents keep no state between  *)
(* calls, so a direct call and an orchestrated run do not affect each      *)
(* other: a behaviour is either one run of createStudyPlan or one direct   *)
(* call.                                                                   *)

\* goal descriptors, task lists and scored task lists as the stages produce them
AnalyzedGoalInputs ==
    { createFallbackAnalysis(g) : g \in GoalTexts }
    \cup { GoalParseResponse(GenText("bare", GoalJson("high", "2 weeks", "given")), g) :
             g \in GoalTexts \ {NoGoalText} }

TaskListInputs ==
    { DecomposeParseResponse(r, createFallbackAnalysis(g)) :
        g \in GoalTexts, r \in DecomposeResponses \ {GenFail, GenText("bare", ArrJson(<<>>))} }

ContextInputs ==
    { [deadline |-> "undefined",     userTendency |-> "balanced"],
      [deadline |-> "not specified", userTendency |-> "balanced"],
      [deadline |-> "2 weeks",       userTendency |-> "procrastinator"],
      [deadline |-> "next year",     userTendency |-> "procrastinator"] }

ScoredListInputs ==
    { scoreTasks(ts, [deadline |-> "2 weeks", userTendency |-> "balanced"], r) :
        ts \in TaskListInputs, r \in {GenFail, GenText("bare", ArrJson(<<GenScore(1, RawNum(9000))>>))} }

PreferenceInputs ==
    { [availableHoursPerDay |-> 4000, bufferTimePercent |-> 20, timeOfDay |-> "morning"],
      [availableHoursPerDay |-> 6000, bufferTimePercent |-> 30, timeOfDay |-> "evening"] }

\* the preferences of the direct createFallbackSchedule calls: those above and a
\* twelve-hour day in the afternoon and in the evening
FallbackPreferenceInputs ==
    PreferenceInputs
    \cup { [availableHoursPerDay |-> 12000, bufferTimePercent |-> 20, timeOfDay |-> t] :
              t \in {"afternoon", "evening"} }

ReflectionInputs ==
    { [progressAnalyzed |-> [totalTasks |-> n, completed |-> c],
       adjustmentsMade  |-> [scheduleChanges |-> sc, priorityChanges |-> pr]] :
        n \in 0..MaxProgress, c \in 0..MaxProgress,
        sc \in -1..MaxChanges, pr \in -1..MaxChanges }

CallAnalyzeGoal ==
    /\ Idle
    /\ \E g \in GoalTexts, r \in GoalResponsesAll :
          /\ arg' = [goalText |-> g]
          /\ resp' = r
          /\ ret' = analyzeGoal(g, r)
    /\ callee' = "analyzeGoal"
    /\ UNCHANGED orchVars
    /\ UNCHANGED svcVars

CallDecompose ==
    /\ Idle
    /\ \E goal \in AnalyzedGoalInputs, r \in DecomposeResponsesAll :
          /\ arg' = [analyzedGoal |-> goal]
          /\ resp' = r
          /\ ret' = decompose(goal, r)
    /\ callee' = "decompose"
    /\ UNCHANGED orchVars
    /\ UNCHANGED svcVars

CallScoreTasks ==
    /\ Idle
    /\ \E ts \in TaskListInputs, context \in ContextInputs, r \in ScoreResponsesAll :
          /\ arg' = [tasks |-> ts, context |-> context]
          /\ resp' = r
          /\ ret' = Returned(scoreTasks(ts, context, r))
    /\ callee' = "scoreTasks"
    /\ UNCHANGED orchVars
    /\ UNCHANGED svcVars

\* arg.tasksAfter: the caller's array after the call
CallCreateSchedule ==
    /\ Idle
    /\ \E ts \in ScoredListInputs, prefs \in PreferenceInputs, r \in ScheduleResponsesAll :
          /\ arg' = [tasks |-> ts, tasksAfter |-> SortByScore(ts), preferences |-> prefs]
          /\ resp' = r
          /\ ret' = Returned(createSchedule(ts, prefs, r))
    /\ callee' = "createSchedule"
    /\ UNCHANGED orchVars
    /\ UNCHANGED svcVars

CallNeedsReplanning ==
    /\ Idle
    /\ \E reflection \in ReflectionInputs :
          /\ reflection.progressAnalyzed.completed <= reflection.progressAnalyzed.totalTasks
          /\ arg' = reflection
          /\ ret' = Returned(needsReplanning(reflection))
    /\ callee' = "needsReplanning"
    /\ UNCHANGED resp
    /\ UNCHANGED orchVars
    /\ UNCHANGED svcVars

\* n observations of the tasks 0..n-1: the first c completed (the first e of them
\* in the evening), the last one pending if not completed, the others missed
Progress(n, c, e) ==
    [k \in 1..n |->
        [taskId  |-> k - 1,
         status  |-> IF k <= c THEN "completed" ELSE IF k = n THEN "pending" ELSE "missed",
         evening |-> k <= e]]

ProgressInputs ==
    UNION { { Progress(n, c, 0), Progress(n, c, c) } :
              n \in 0..MaxProgress, c \in 0..MaxProgress }

\* plans as createStudyPlan returns them
PlanInputs ==
    { [goal     |-> createFallbackAnalysis(g),
       tasks    |-> SortByScore(scoreTasks(createFallbackTasks(createFallbackAnalysis(g)),
                                           EmptyContext, GenFail)),
       schedule |-> createSchedule(
                        scoreTasks(createFallbackTasks(createFallbackAnalysis(g)),
                                   EmptyContext, GenFail),
                        prefs, r)] :
        g \in {[tokens |-> 6, mentionsDeadline |-> TRUE]},
        prefs \in PreferenceInputs,
        r \in {GenFail,
               GenText("bare", SchedJson(TRUE, <<GenDay(0, <<GenInstance(0, 1250)>>, 0)>>, 0, 0))} }

\* memories as reflect returns them
MemoryInputs ==
    { EmptyMemory,
      updateMemory(EmptyMemory, MemoryUpdates(<<MemoryUpdate("evening_productivity")>>),
                   Progress(2, 1, 0)).value,
      updateMemory(EmptyMemory,
                   MemoryUpdates(<<MemoryUpdate("monday_struggles"),
                                   MemoryUpdate("evening_productivity"),
                                   MemoryUpdate("monday_struggles")>>),
                   Progress(1, 0, 0)).value }

\* arg.userMemoryAfter: the caller's memory object after the call; arg.calls: how
\* many calls the caller has made with the memory it keeps
CallReflect ==
    /\ Idle
    /\ \E plan \in PlanInputs, userProgress \in ProgressInputs, userMemory \in MemoryInputs,
          r \in ReflectResponsesAll :
          LET out == reflect(plan.schedule, userProgress, userMemory, r)
          IN  /\ arg' = [currentPlan |-> plan.schedule, userProgress |-> userProgress,
                         userMemory |-> userMemory, userMemoryAfter |-> out.memoryAfter,
                         calls |-> 1]
              /\ resp' = r
              /\ ret' = Returned(out.value)
    /\ callee' = "reflect"
    /\ UNCHANGED orchVars
    /\ UNCHANGED svcVars

\* the caller reflects again, on one completed task, with the memory the last
\* call returned
CallReflectAgain ==
    /\ pc = "idle" /\ callee = "reflect"
    /\ arg.calls < MaxReflections
    /\ \E r \in MemoryResponses :
          LET out == reflect(arg.currentPlan, Progress(1, 1, 0), ret.value.updatedMemory, r)
          IN  /\ arg' = [currentPlan |-> arg.currentPlan, userProgress |-> Progress(1, 1, 0),
                         userMemory |-> ret.value.updatedMemory,
                         userMemoryAfter |-> out.memoryAfter,
                         calls |-> arg.calls + 1]
              /\ resp' = r
              /\ ret' = Returned(out.value)
    /\ UNCHANGED callee
    /\ UNCHANGED orchVars
    /\ UNCHANGED svcVars

CallAdjustPlan ==
    /\ Idle
    /\ \E plan \in PlanInputs, userProgress \in ProgressInputs,
          r \in ReflectResponsesAll, r2 \in {GenFail, GenText("bare", GarbageJson)} :
          /\ arg' = [currentPlan |-> plan, userProgress |-> userProgress,
                     userMemory |-> EmptyMemory]
          /\ resp' = r
          /\ ret' = Returned(adjustPlan(plan, userProgress, EmptyMemory, r, r2))
    /\ callee' = "adjustPlan"
    /\ UNCHANGED orchVars
    /\ UNCHANGED svcVars

\* task lists of a plan: as createStudyPlan returns them, and as adjustPlan
\* returns them after priority changes
PlanTaskInputs ==
    { plan.tasks : plan \in PlanInputs }
    \cup { SortByScore(ts) : ts \in ScoredListInputs }
    \cup { adjustPlan(plan, Progress(0, 0, 0), EmptyMemory,
                      GenText("bare", ReflectJson(a, NoMemoryUpdates)), GenFail).adjustedPlan.tasks :
             plan \in PlanInputs, a \in AdjustmentInputs }

\* ids a caller reports completed: of tasks of the plan and of none
CompletedIdInputs == SUBSET {0, 1, 2, 7}

\* arg.planAfter: the caller's plan after the call
CallGetNextTask ==
    /\ Idle
    /\ \E ts \in PlanTaskInputs, completedTaskIds \in CompletedIdInputs :
          /\ arg' = [plan |-> [tasks |-> ts], planAfter |-> [tasks |-> ts],
                     completedTaskIds |-> completedTaskIds]
          /\ ret' = Returned(getNextTask([tasks |-> ts], completedTaskIds))
    /\ callee' = "getNextTask"
    /\ UNCHANGED resp
    /\ UNCHANGED orchVars
    /\ UNCHANGED svcVars

\* lists of five tasks whose estimatedHours sum to 22, each hours value one that
\* validateHours gives, with the priority scores of ss
ValidHours == {500, 1000, 2000, 2500, 4000, 4500, 5000, 10000, 20000}
HoursSummingTo22 ==
    { hs \in [1..5 -> ValidHours] : SumSeq(hs) = 22000 }
ScorePatterns == { <<5, 5, 5, 5, 5>>, <<9, 3, 7, 1, 5>> }
FiveTasks(hs, ss) ==
    [k \in 1..5 |-> [id |-> k - 1, estimatedHours |-> hs[k], priorityScore |-> ss[k]]]

CallCreateFallbackSchedule ==
    /\ Idle
    /\ \E hs \in HoursSummingTo22, ss \in ScorePatterns, prefs \in FallbackPreferenceInputs :
          /\ arg' = [tasks |-> FiveTasks(hs, ss), preferences |-> prefs]
          /\ ret' = Returned(createFallbackSchedule(FiveTasks(hs, ss), prefs))
    /\ callee' = "createFallbackSchedule"
    /\ UNCHANGED resp
    /\ UNCHANGED orchVars
    /\ UNCHANGED svcVars

\* the methods of AgentOrchestrator
OrchestratorMethods ==
    {"createStudyPlan", "adjustPlan", "analyzeGoalOnly", "getNextTask",
     "buildUserContext", "buildSchedulingPreferences", "estimateAvailableHours",
     "log", "getLastCompletedStep", "formatExecutionLog", "getStats"}

\* the triggerReflection handler: the status it answers and the number of records
\* it pushes to plan.adjustments; adjusted is the flag of the reflection result.
\* orchestrator.reflect(...) on an object without that method throws a TypeError,
\* which the catch block answers with 500
triggerReflection(goalFound, planFound, adjusted) ==
    IF ~goalFound THEN [status |-> 404, message |-> "Goal not found", pushed |-> 0]
    ELSE IF ~planFound THEN [status |-> 404, message |-> "Plan not found", pushed |-> 0]
    ELSE IF "reflect" \notin OrchestratorMethods
         THEN [status |-> 500, message |-> "Internal server error", pushed |-> 0]
    ELSE [status |-> 200, message |-> "Reflection completed",
          pushed |-> IF adjusted THEN 1 ELSE 0]

CallTriggerReflection ==
    /\ Idle
    /\ \E goalFound \in BOOLEAN, planFound \in BOOLEAN, adjusted \in BOOLEAN :
          /\ arg' = [goalFound |-> goalFound, planFound |-> planFound, adjusted |-> adjusted]
          /\ ret' = Returned(triggerReflection(goalFound, planFound, adjusted))
    /\ callee' = "triggerReflection"
    /\ UNCHANGED resp
    /\ UNCHANGED orchVars
    /\ UNCHANGED svcVars

----------------------------------------------------------------------------
(* callHuggingFace *)

WORKING_MODELS == <<"meta-llama/Llama-3.2-3B-Instruct">>
\* maxRetries = 3 of the options' defaults
DefaultMaxRetries == 4

\* options: [model, maxRetries]; model "" and maxRetries -1 are absent options
HfOptionInputs ==
    { [model |-> mo, maxRetries |-> n] :
        mo \in {"", "caller/model"}, n \in -1..MaxRetries }

\* hf: pc "idle" (no call), "attempt" (hf.chatCompletion awaited for model m,
\* attempt number attempt), "returned", "threw"; calls: every chatCompletion call
\* made, [model, attempt, outcome], outcome "content" (resolved, content read),
\* "rejected" (the promise rejected) or "malformed" (resolved without
\* choices[0].message: reading the content throws); lastError and content: the
\* number of the call they come from, 0 for undefined
HfIdle == [pc |-> "idle", modelsToTry |-> <<>>, maxRetries |-> 0, m |-> 0, attempt |-> 0,
           calls |-> <<>>, lastError |-> 0, content |-> 0]

AttemptOutcomes == {"content", "rejected", "malformed"}

\* HfAdvance leaving a model one attempt early
HfAdvance_OneAttemptShort(h) ==
    IF h.attempt + 1 < h.maxRetries THEN [h EXCEPT !.attempt = h.attempt + 1]
    ELSE IF h.m < Len(h.modelsToTry) THEN [h EXCEPT !.m = h.m + 1, !.attempt = 1]
    ELSE [h EXCEPT !.pc = "threw"]

\* the loops after a failed attempt: the next attempt on the same model, else the
\* first attempt on the next model, else the throw behind the loops
HfAdvance(h) ==
    IF h.attempt + 1 <= h.maxRetries THEN [h EXCEPT !.attempt = h.attempt + 1]
    ELSE IF h.m < Len(h.modelsToTry) THEN [h EXCEPT !.m = h.m + 1, !.attempt = 1]
    ELSE [h EXCEPT !.pc = "threw"]

\* callHuggingFace is called: up to the first await, or to the throw when the
\* loops have nothing to run
CallHuggingFaceCall ==
    /\ Idle
    /\ \E o \in HfOptionInputs :
          LET modelsToTry == IF o.model # "" THEN <<o.model>> ELSE WORKING_MODELS
              maxRetries == IF o.maxRetries = -1 THEN DefaultMaxRetries ELSE o.maxRetries
              enters == Len(modelsToTry) >= 1 /\ 1 <= maxRetries
          IN  hf' = [pc |-> IF enters THEN "attempt" ELSE "threw",
                     modelsToTry |-> modelsToTry, maxRetries |-> maxRetries,
                     m |-> 1, attempt |-> 1, calls |-> <<>>, lastError |-> 0,
                     content |-> 0]
    /\ UNCHANGED orchVars
    /\ UNCHANGED agentVars
    /\ UNCHANGED ctlVars
    /\ UNCHANGED rfl

\* the awaited chatCompletion call settles
HfAttempt ==
    /\ hf.pc = "attempt"
    /\ \E outcome \in AttemptOutcomes :
          LET made == [hf EXCEPT !.calls = Append(hf.calls,
                          [model |-> hf.modelsToTry[hf.m], attempt |-> hf.attempt,
                           outcome |-> outcome])]
          IN  hf' = IF outcome = "content"
                    THEN [made EXCEPT !.pc = "returned", !.content = Len(made.calls)]
                    ELSE HfAdvance([made EXCEPT !.lastError = Len(made.calls)])
    /\ UNCHANGED orchVars
    /\ UNCHANGED agentVars
    /\ UNCHANGED ctlVars
    /\ UNCHANGED rfl

----------------------------------------------------------------------------
(* The createStudyPlan controller: each request runs the handler, its own  *)
(* orchestrator and the saves; the requests interleave at the awaits       *)

\* const orchestrator = new AgentOrchestrator(): a shared instance instead
OrchestratorOf_Shared(i) == 1

\* const orchestrator = new AgentOrchestrator(): one instance per request
OrchestratorOf(i) == i

\* req.body: goalText and preferences.hoursPerDay (0: absent)
RequestBodies ==
    { [goalText |-> [tokens |-> 0,  mentionsDeadline |-> FALSE], hoursPerDay |-> 0],
      [goalText |-> [tokens |-> 6,  mentionsDeadline |-> TRUE],  hoursPerDay |-> 0],
      [goalText |-> [tokens |-> 21, mentionsDeadline |-> TRUE],  hoursPerDay |-> 6000] }

\* what Memory.findOne settles with: no document, a document, a rejection
MemoryOutcomes == {"none", "procrastinator", "rejected"}
SaveOutcomes == {"saved", "rejected"}

ReqGoalResponses == { GenFail, GenText("bare", GoalJson("low", "tomorrow", "given")) }
ReqDecomposeResponses ==
    { GenFail,
      GenText("bare", ArrJson(<<>>)),
      GenText("fenced", ArrJson(<<GenTask(RawNum(2000), "low", 0),
                                  GenTask(RawNum(3500), "high", 0)>>)) }
ReqScoreResponses == { GenFail, GenText("bare", ArrJson(<<GenScore(1, RawNum(9000))>>)) }
ReqScheduleResponses ==
    { GenFail,
      GenText("bare", SchedJson(TRUE, <<GenDay(0, <<GenInstance(-1, 1000)>>, 1000)>>, 0, 0)) }

NoRunResult ==
    [success |-> FALSE, error |-> "", failedAt |-> "", plan |-> <<>>, executionLog |-> <<>>]

\* steps: the steps this run logged; resps: the generation outcomes it got;
\* startedDuring: another request's run was in progress when this one began
ReqIdle ==
    [pc |-> "idle", body |-> [goalText |-> NoGoalText, hoursPerDay |-> 0],
     tendency |-> "balanced", analyzedGoal |-> NoAnalysis, tasks |-> <<>>,
     scoredTasks |-> <<>>, result |-> NoRunResult, status |-> 0,
     steps |-> <<>>, resps |-> <<>>, startedDuring |-> FALSE]

\* the options the controller passes to createStudyPlan
RunOptions(q) ==
    [tendency |-> q.tendency,
     availableHoursPerDay |-> IF q.body.hoursPerDay # 0 THEN q.body.hoursPerDay ELSE 4000,
     bufferTimePercent |-> 20,
     timeOfDay |-> "morning"]

InRun(q) == q.pc \in {"STEP_1", "STEP_2", "STEP_3", "STEP_4"}

\* this.log for each of the entries; the run goes on to its next await
Continue(i, q, entries) ==
    /\ orchLogs' = [orchLogs EXCEPT ![OrchestratorOf(i)] = @ \o entries]
    /\ reqs' = [reqs EXCEPT ![i] = [q EXCEPT !.steps = @ \o entries]]

\* the catch block of createStudyPlan and the 500 the controller answers
Catch(i, q, entries, message) ==
    LET logged == entries \o <<"ORCHESTRATION_ERROR">>
        log == orchLogs[OrchestratorOf(i)] \o logged
    IN  /\ orchLogs' = [orchLogs EXCEPT ![OrchestratorOf(i)] = log]
        /\ reqs' = [reqs EXCEPT ![i] =
                      [q EXCEPT !.steps = @ \o logged,
                                !.result = [success |-> FALSE, error |-> message,
                                            failedAt |-> getLastCompletedStep(log),
                                            plan |-> <<>>, executionLog |-> log],
                                !.pc = "responded",
                                !.status = 500]]

\* the handler up to await Memory.findOne
ReceiveRequest(i) ==
    /\ NoCall
    /\ NoReflection
    /\ reqs[i].pc = "idle"
    /\ \E body \in RequestBodies :
          reqs' = [reqs EXCEPT ![i] = [@ EXCEPT !.pc = "findMemory", !.body = body]]
    /\ UNCHANGED <<orchLogs, store, hf>>
    /\ UNCHANGED orchVars
    /\ UNCHANGED agentVars
    /\ UNCHANGED rfl

\* Memory.findOne settles; the handler builds userContext, makes its orchestrator
\* and calls createStudyPlan, which runs up to await analyzeGoal
MemoryFound(i) ==
    /\ reqs[i].pc = "findMemory"
    /\ \E memory \in MemoryOutcomes :
          IF memory = "rejected"
          THEN /\ reqs' = [reqs EXCEPT ![i] = [@ EXCEPT !.pc = "responded", !.status = 500]]
               /\ UNCHANGED orchLogs
          ELSE LET started == <<"ORCHESTRATION_START", "STEP_1_START">>
               IN  /\ orchLogs' = [orchLogs EXCEPT ![OrchestratorOf(i)] = started]
                   /\ reqs' = [reqs EXCEPT ![i] =
                         [@ EXCEPT !.pc = "STEP_1",
                                   !.tendency = IF memory = "none" THEN "balanced" ELSE memory,
                                   !.steps = started,
                                   !.startedDuring = \E j \in Requests \ {i} : InRun(reqs[j])]]
    /\ UNCHANGED <<store, hf>>
    /\ UNCHANGED orchVars
    /\ UNCHANGED agentVars
    /\ UNCHANGED rfl

ReqGoalAnalysis(i) ==
    /\ reqs[i].pc = "STEP_1"
    /\ \E r \in ReqGoalResponses :
          LET q == [reqs[i] EXCEPT !.resps = Append(@, r)]
              out == analyzeGoal(q.body.goalText, r)
          IN  IF out.threw
              THEN Catch(i, q, <<>>, "Failed to analyze goal")
              ELSE Continue(i, [q EXCEPT !.analyzedGoal = out.value, !.pc = "STEP_2"],
                            <<"STEP_1_COMPLETE", "STEP_2_START">>)
    /\ UNCHANGED <<store, hf>>
    /\ UNCHANGED orchVars
    /\ UNCHANGED agentVars
    /\ UNCHANGED rfl

ReqDecomposition(i) ==
    /\ reqs[i].pc = "STEP_2"
    /\ \E r \in ReqDecomposeResponses :
          LET q == [reqs[i] EXCEPT !.resps = Append(@, r)]
              out == decompose(q.analyzedGoal, r)
          IN  IF out.threw
              THEN Catch(i, q, <<>>, "Failed to decompose tasks")
              ELSE IF Len(out.value) = 0
              THEN Catch(i, q, <<"STEP_2_COMPLETE">>, "Task decomposition produced no tasks")
              ELSE Continue(i, [q EXCEPT !.tasks = out.value, !.pc = "STEP_3"],
                            <<"STEP_2_COMPLETE", "STEP_3_START">>)
    /\ UNCHANGED <<store, hf>>
    /\ UNCHANGED orchVars
    /\ UNCHANGED agentVars
    /\ UNCHANGED rfl

\* scoreTasks resolves; the run goes on to the createSchedule call, whose
\* buildPrompt sorts scoredTasks in place before the generation call is awaited
ReqScoring(i) ==
    /\ reqs[i].pc = "STEP_3"
    /\ \E r \in ReqScoreResponses :
          LET q == [reqs[i] EXCEPT !.resps = Append(@, r)]
              userContext == buildUserContext(RunOptions(q), q.analyzedGoal)
              scored == scoreTasks(q.tasks, userContext, r)
              entries == <<"STEP_3_COMPLETE", "STEP_4_START">>
          IN  IF estimateAvailableHours(q.analyzedGoal.parsedDeadline).threw
              THEN Catch(i, [q EXCEPT !.scoredTasks = scored], entries,
                         "deadline.toLowerCase is not a function")
              ELSE Continue(i, [q EXCEPT !.scoredTasks = SortByScore(scored),
                                         !.pc = "STEP_4"], entries)
    /\ UNCHANGED <<store, hf>>
    /\ UNCHANGED orchVars
    /\ UNCHANGED agentVars
    /\ UNCHANGED rfl

\* createSchedule resolves, createStudyPlan returns its plan and the handler
\* goes on to await newGoal.save()
ReqSchedule(i) ==
    /\ reqs[i].pc = "STEP_4"
    /\ \E r \in ReqScheduleResponses :
          LET q == [reqs[i] EXCEPT !.resps = Append(@, r)]
              schedulingPrefs == buildSchedulingPreferences(RunOptions(q), q.analyzedGoal)
              made == createSchedule(q.scoredTasks, schedulingPrefs, r)
              entries == <<"STEP_4_COMPLETE", "ORCHESTRATION_COMPLETE">>
          IN  Continue(i, [q EXCEPT !.pc = "saveGoal",
                                    !.result =
                                       [success |-> TRUE, error |-> "", failedAt |-> "",
                                        plan |-> <<[goal       |-> q.analyzedGoal,
                                                    tasks      |-> q.scoredTasks,
                                                    schedule   |-> made,
                                                    totalTasks |-> Len(q.tasks),
                                                    totalHours |-> made.summary.totalHours]>>,
                                        executionLog |->
                                            orchLogs[OrchestratorOf(i)] \o entries]],
                       entries)
    /\ UNCHANGED <<store, hf>>
    /\ UNCHANGED orchVars
    /\ UNCHANGED agentVars
    /\ UNCHANGED rfl

\* one of the awaited saves settles: the document is in the store and the
\* handler goes on, or the save rejects and the handler answers 500
Save(i, kind, size, next) ==
    \E outcome \in SaveOutcomes :
        IF outcome = "saved"
        THEN /\ store' = store \cup {[kind |-> kind, userId |-> i, size |-> size]}
             /\ reqs' = [reqs EXCEPT ![i] =
                           [@ EXCEPT !.pc = next,
                                     !.status = IF next = "responded" THEN 201 ELSE 0]]
        ELSE /\ reqs' = [reqs EXCEPT ![i] = [@ EXCEPT !.pc = "responded", !.status = 500]]
             /\ UNCHANGED store

SaveGoal(i) ==
    /\ reqs[i].pc = "saveGoal"
    /\ Save(i, "goal", 1, "saveTasks")
    /\ UNCHANGED <<orchLogs, hf>>
    /\ UNCHANGED orchVars
    /\ UNCHANGED agentVars
    /\ UNCHANGED rfl

SaveTasks(i) ==
    /\ reqs[i].pc = "saveTasks"
    /\ Save(i, "tasks", Len(reqs[i].result.plan[1].tasks), "savePlan")
    /\ UNCHANGED <<orchLogs, hf>>
    /\ UNCHANGED orchVars
    /\ UNCHANGED agentVars
    /\ UNCHANGED rfl

SavePlan(i) ==
    /\ reqs[i].pc = "savePlan"
    /\ Save(i, "plan", Len(reqs[i].result.plan[1].schedule.schedule), "responded")
    /\ UNCHANGED <<orchLogs, hf>>
    /\ UNCHANGED orchVars
    /\ UNCHANGED agentVars
    /\ UNCHANGED rfl

----------------------------------------------------------------------------
(* Two reflect calls given the same userMemory object, overlapping at the  *)
(* awaited generation call                                                 *)

\* the object both calls are given: without a patterns list, or with one
SharedMemoryInputs ==
    { EmptyMemory,
      [EmptyMemory EXCEPT !.hasPatterns = TRUE],
      [EmptyMemory EXCEPT !.hasPatterns = TRUE,
                          !.patterns = <<[pattern |-> "evening_productivity",
                                          occurrences |-> 1]>>] }

RunResponses ==
    { GenFail,
      GenText("bare", ReflectJson(NoAdjustments,
          MemoryUpdates(<<MemoryUpdate("evening_productivity")>>))),
      GenText("bare", ReflectJson(NoAdjustments,
          MemoryUpdates(<<MemoryUpdate("monday_struggles"),
                          MemoryUpdate("monday_struggles")>>))),
      GenText("bare", ReflectJson(NoAdjustments,
          MemoryUpdates(<<MemoryUpdate("monday_struggles"), NullUpdate>>))) }

RunPlan == createFallbackSchedule(<<>>, [availableHoursPerDay |-> 4000,
                                        bufferTimePercent |-> 20, timeOfDay |-> "morning"])
RunProgress == Progress(2, 1, 0)

\* own: TRUE when the memory the run returned holds a patterns array of its own
\* (ownPatterns), FALSE when it holds the array of the object it was given
RunIdle == [pc |-> "idle", resp |-> GenFail, own |-> FALSE, ownPatterns |-> <<>>]

\* given: the object as the callers hold it; first: as it was before the first
\* call; finished: the runs in the order they returned
RflIdle ==
    [given |-> EmptyMemory, first |-> EmptyMemory,
     runs |-> [i \in Runs |-> RunIdle], finished |-> <<>>]

\* reflect up to await callHuggingFace, begun before the other call has returned
ReflectBegin(i) ==
    /\ NoCall
    /\ NoRequest
    /\ rfl.runs[i].pc = "idle"
    /\ rfl.finished = <<>>
    /\ \E userMemory \in SharedMemoryInputs :
          LET given == IF NoReflection THEN userMemory ELSE rfl.given
          IN  rfl' = [rfl EXCEPT !.given = given,
                                 !.first = IF NoReflection THEN userMemory ELSE @,
                                 !.runs[i].pc = "awaiting"]
    /\ UNCHANGED <<hf, reqs, orchLogs, store>>
    /\ UNCHANGED orchVars
    /\ UNCHANGED agentVars

\* the generation call settles and reflect runs to its return
ReflectSettle(i) ==
    /\ rfl.runs[i].pc = "awaiting"
    /\ \E r \in RunResponses :
          LET out == reflect(RunPlan, RunProgress, rfl.given, r)
              returned == out.value.updatedMemory
              own == returned.hasPatterns /\ ~rfl.given.hasPatterns
          IN  rfl' = [rfl EXCEPT !.given = out.memoryAfter,
                                 !.runs[i] = [pc |-> "returned", resp |-> r, own |-> own,
                                              ownPatterns |-> IF own THEN returned.patterns
                                                              ELSE <<>>],
                                 !.finished = Append(@, i)]
    /\ UNCHANGED <<hf, reqs, orchLogs, store>>
    /\ UNCHANGED orchVars
    /\ UNCHANGED agentVars

----------------------------------------------------------------------------
(* The specification *)

OrchInit ==
    /\ pc = "idle"
    /\ goalText = NoGoalText
    /\ options = NoOptions
    /\ analyzedGoal = NoAnalysis
    /\ tasks = <<>>
    /\ scoredTasks = <<>>
    /\ schedule = NoSchedule
    /\ executionLog = <<>>
    /\ result = NoResult
    /\ genLog = <<>>

AgentIdle ==
    /\ callee = "none"
    /\ arg = <<>>
    /\ resp = GenFail
    /\ ret = Threw

CtlInit ==
    /\ reqs = [i \in Requests |-> ReqIdle]
    /\ orchLogs = [o \in Requests |-> <<>>]
    /\ store = {}

Init == OrchInit /\ AgentIdle /\ hf = HfIdle /\ CtlInit /\ rfl = RflIdle


ControllerNext ==
    \/ \E i \in Requests : ReceiveRequest(i)
    \/ \E i \in Requests : MemoryFound(i)
    \/ \E i \in Requests : ReqGoalAnalysis(i)
    \/ \E i \in Requests : ReqDecomposition(i)
    \/ \E i \in Requests : ReqScoring(i)
    \/ \E i \in Requests : ReqSchedule(i)
    \/ \E i \in Requests : SaveGoal(i)
    \/ \E i \in Requests : SaveTasks(i)
    \/ \E i \in Requests : SavePlan(i)

Next ==
    \/ CreateStudyPlanCall
    \/ GoalAnalysisStep
    \/ DecompositionStep
    \/ ScoringStep
    \/ ScheduleStep
    \/ CallAnalyzeGoal
    \/ CallDecompose
    \/ CallScoreTasks
    \/ CallCreateSchedule
    \/ CallNeedsReplanning
    \/ CallReflect
    \/ CallReflectAgain
    \/ CallAdjustPlan
    \/ CallGetNextTask
    \/ CallCreateFallbackSchedule
    \/ CallTriggerReflection
    \/ CallHuggingFaceCall
    \/ HfAttempt

Spec == Init /\ [][Next]_vars

\* callHuggingFace alone; an awaited chatCompletion call settles: it resolves, or
\* it rejects
RetryNext ==
    \/ CallHuggingFaceCall
    \/ HfAttempt

RetrySpec == Init /\ [][RetryNext]_vars /\ WF_hf(HfAttempt)

\* the requests at the controller, in flight together; their runs work on their
\* own orchestrators and leave the variables of the single run alone
ControllerSpec == Init /\ [][ControllerNext]_vars

\* the overlapping reflect calls
ReflectionNext ==
    \/ \E i \in Runs : ReflectBegin(i)
    \/ \E i \in Runs : ReflectSettle(i)

ReflectionSpec == Init /\ [][ReflectionNext]_vars

----------------------------------------------------------------------------
(* Properties *)

EstimatedHours(ts) == [k \in 1..Len(ts) |-> ts[k].estimatedHours]
Durations(insts)   == [k \in 1..Len(insts) |-> insts[k].duration]
AllGenerationFailed == \A k \in 1..Len(genLog) : genLog[k] = "fail"
IsJsonArray(r) == r.kind = "text" /\ ParseDirect(r) /\ r.json.t = "arr"

\* C1: with the generation backend failing throughout, createStudyPlan on a
\* non-empty goal still returns success with a plan of 3 to 5 tasks, each scored
\* 1..10, a schedule of at least one day and summary.totalHours equal to the sum
\* of the tasks' estimatedHours.
C1_PlanDespiteTotalFailure ==
    (pc = "done" /\ ~IsEmptyGoal(goalText) /\ AllGenerationFailed) =>
        /\ result.success
        /\ Len(result.plan) = 1
        /\ Len(result.plan[1].tasks) \in 3..5
        /\ \A k \in 1..Len(result.plan[1].tasks) :
              result.plan[1].tasks[k].priorityScore \in 1..10
        /\ Len(result.plan[1].schedule.schedule) >= 1
        /\ result.plan[1].schedule.summary.totalHours
              = SumSeq(EstimatedHours(result.plan[1].tasks))

\* C2: analyzeGoal on a non-empty goal never fails; it returns a descriptor whose
\* complexity is low, medium or high, the heuristic one when generation fails or
\* the output cannot be parsed.
C2_AnalyzeGoalNeverFails ==
    (callee = "analyzeGoal" /\ ~IsEmptyGoal(arg.goalText)) =>
        /\ ~ret.threw
        /\ ret.value.complexity \in {"low", "medium", "high"}
        /\ (resp.kind = "fail" \/ ~ParseWithRecovery(resp)) =>
              ret.value = createFallbackAnalysis(arg.goalText)

\* C3: when the generation call of decompose fails, or its response is not a JSON
\* array, decompose returns the synthetic list: 5 tasks for complexity high, 4 for
\* medium, 3 for low, the first two of priority high and the rest medium, all pending.
C3_FallbackListOnFailure ==
    (callee = "decompose" /\ ~IsJsonArray(resp)) =>
        /\ ~ret.threw
        /\ Len(ret.value) = (IF arg.analyzedGoal.complexity = "high" THEN 5
                             ELSE IF arg.analyzedGoal.complexity = "medium" THEN 4 ELSE 3)
        /\ \A k \in 1..Len(ret.value) :
              /\ ret.value[k].priority = (IF k <= 2 THEN "high" ELSE "medium")
              /\ ret.value[k].status = "pending"

\* C4: decompose never returns an empty task list, whatever the generation call gave.
C4_DecomposeNeverEmpty ==
    (callee = "decompose" /\ ~ret.threw) => Len(ret.value) > 0

\* C5: createStudyPlan on an empty goal text returns a failed run and no plan,
\* whatever the generation backend answers.
C5_EmptyGoalFails ==
    (pc = "done" /\ IsEmptyGoal(goalText)) =>
        /\ ~result.success
        /\ result.plan = <<>>

\* C6: every task decompose returns has 0 < estimatedHours <= 40, a multiple of 0.5.
C6_HoursInRange ==
    (callee = "decompose" /\ ~ret.threw) =>
        \A k \in 1..Len(ret.value) :
            /\ 0 < ret.value[k].estimatedHours
            /\ ret.value[k].estimatedHours <= 40000
            /\ ret.value[k].estimatedHours % 500 = 0

\* C7: every task scoreTasks returns has an integer priorityScore in 1..10, for
\* every generation outcome; so has every scored task of an orchestrated run.
C7_ScoresInRange ==
    /\ callee = "scoreTasks" =>
          /\ ~ret.threw
          /\ Len(ret.value) = Len(arg.tasks)
          /\ \A k \in 1..Len(ret.value) : ret.value[k].priorityScore \in 1..10
    /\ \A k \in 1..Len(scoredTasks) : scoredTasks[k].priorityScore \in 1..10

\* a generated score above 10 was matched to the first task and clamped
C7_Witness ==
    /\ callee = "scoreTasks"
    /\ IsJsonArray(resp)
    /\ Len(resp.json.items) >= 1
    /\ resp.json.items[1].isObject
    /\ resp.json.items[1].taskIndex = 0
    /\ resp.json.items[1].score = RawNum(11000)
    /\ ~ret.value[1].ruleBased
    /\ ret.value[1].priorityScore = 10

\* C8: in every schedule createSchedule returns, the durations of all scheduled
\* task instances sum to the estimatedHours of the input tasks.
C8_DurationsSumToEstimates ==
    callee = "createSchedule" =>
        SumSeq(Durations(Instances(ret.value.schedule)))
            = SumSeq(EstimatedHours(arg.tasks))

\* C9: in every schedule createSchedule returns, each input task is in exactly one
\* scheduled task instance and every instance refers to an input task.
C9_EachTaskOnce ==
    callee = "createSchedule" =>
        LET insts == Instances(ret.value.schedule)
        IN  /\ \A k \in 1..Len(arg.tasks) :
                  Cardinality({i \in 1..Len(insts) : insts[i].taskId = arg.tasks[k].id}) = 1
            /\ \A i \in 1..Len(insts) :
                  \E k \in 1..Len(arg.tasks) : insts[i].taskId = arg.tasks[k].id

\* C10: needsReplanning is true exactly when completed / totalTasks is below 50%
\* (never so without tasks), or there are more than 3 scheduleChanges, or more
\* than 2 priorityChanges.
C10_NeedsReplanningExact ==
    callee = "needsReplanning" =>
        ret.value = ( \/ 2 * arg.progressAnalyzed.completed < arg.progressAnalyzed.totalTasks
                      \/ arg.adjustmentsMade.scheduleChanges > 3
                      \/ arg.adjustmentsMade.priorityChanges > 2 )

\* 2 of 5 completed, no changes: 40%, replanning needed
C10_Witness ==
    /\ callee = "needsReplanning"
    /\ arg.progressAnalyzed = [totalTasks |-> 5, completed |-> 2]
    /\ arg.adjustmentsMade = [scheduleChanges |-> 0, priorityChanges |-> 0]
    /\ ret.value = TRUE

\* the reflection adjustPlan worked with, recomputed from the call's arguments
ReflectionOfCall ==
    reflect(arg.currentPlan.schedule, arg.userProgress, arg.userMemory, resp).value

\* C11: in adjustPlan, when needsReplanning holds for the reflection and a task is
\* not completed, createSchedule is called once more, with exactly the tasks not
\* marked completed, and the schedule returned is the one it built; when
\* needsReplanning does not hold, createSchedule is not called.
C11_ReplanWhenNeeded ==
    callee = "adjustPlan" =>
        LET needed == needsReplanning(ReplanningView(ReflectionOfCall))
            remaining == RemainingTasks(ret.value.adjustedPlan.tasks, arg.userProgress)
        IN  /\ (needed /\ remaining # <<>>) =>
                  /\ ret.value.createScheduleCalls = <<remaining>>
                  /\ ret.value.adjustedPlan.schedule.summary.tasksScheduled = Len(remaining)
            /\ ~needed => ret.value.createScheduleCalls = <<>>

NoDuplicateKeys(patterns) ==
    \A i, j \in 1..Len(patterns) : patterns[i].pattern = patterns[j].pattern => i = j
TimesNamed(items, key) ==
    Cardinality({k \in 1..Len(items) : items[k].isObject /\ items[k].pattern = key})
\* the occurrences stored for a key, 0 when the key is not stored
OccurrencesOf(patterns, key) ==
    IF \E k \in 1..Len(patterns) : patterns[k].pattern = key
    THEN patterns[CHOOSE k \in 1..Len(patterns) : patterns[k].pattern = key].occurrences
    ELSE 0

\* C12: through any sequence of reflect calls whose output is parsed, a memory
\* without duplicate keys stays without duplicate keys, and a call whose
\* memoryUpdates names a key once sets its occurrences to 1 if the key was new and
\* to the previous value plus 1 otherwise.
C12_UpsertByKey ==
    (callee = "reflect" /\ ~ret.value.fallback) =>
        /\ NoDuplicateKeys(ret.value.updatedMemory.patterns)
        /\ \A key \in PatternKeys :
              TimesNamed(ret.value.memoryUpdates, key) = 1 =>
                  OccurrencesOf(ret.value.updatedMemory.patterns, key)
                      = OccurrencesOf(arg.userMemory.patterns, key) + 1

\* second call of a sequence: one key met again (2 -> 3), one new (-> 1)
C12_Witness ==
    /\ callee = "reflect"
    /\ arg.calls = 2
    /\ ~ret.value.fallback
    /\ TimesNamed(ret.value.memoryUpdates, "monday_struggles") = 1
    /\ TimesNamed(ret.value.memoryUpdates, "evening_productivity") = 1
    /\ OccurrencesOf(arg.userMemory.patterns, "monday_struggles") = 2
    /\ OccurrencesOf(arg.userMemory.patterns, "evening_productivity") = 0
    /\ OccurrencesOf(ret.value.updatedMemory.patterns, "monday_struggles") = 3
    /\ OccurrencesOf(ret.value.updatedMemory.patterns, "evening_productivity") = 1

\* C13: when the generation call of reflect fails or its output cannot be parsed,
\* reflect returns the schedule it was given unchanged as adjustedPlan, an empty
\* memoryUpdates list, and a recommended buffer of 30 for a completion rate below
\* 60%, 20 below 80%, 15 otherwise (the rate of no observations is 0).
C13_FallbackReflection ==
    (callee = "reflect" /\ (resp.kind = "fail" \/ ~ParseDirect(resp))) =>
        LET total == Len(arg.userProgress)
            completed == CountStatus(arg.userProgress, {"completed"})
        IN  /\ ret.value.adjustedPlan = arg.currentPlan
            /\ ret.value.memoryUpdates = <<>>
            /\ ret.value.adjustmentsMade.recommendedBufferPercent =
                  (IF total = 0 \/ 100 * completed < 60 * total THEN 30
                   ELSE IF 100 * completed < 80 * total THEN 20
                   ELSE 15)

\* 1 of 2 completed (50%), unparsable answer: buffer 30, schedule as given
C13_Witness ==
    /\ callee = "reflect"
    /\ resp = GenText("prose", GarbageJson)
    /\ arg.userProgress = Progress(2, 1, 0)
    /\ Len(arg.currentPlan.schedule) > 0
    /\ ret.value.adjustedPlan = arg.currentPlan
    /\ ret.value.adjustmentsMade.recommendedBufferPercent = 30

\* positions of plan.tasks whose task is not reported completed
OpenPositions == {k \in 1..Len(arg.plan.tasks) : arg.plan.tasks[k].id \notin arg.completedTaskIds}
\* the first position among those with the highest priorityScore
FirstBest(positions) ==
    CHOOSE k \in positions :
        \A j \in positions :
            \/ arg.plan.tasks[j].priorityScore < arg.plan.tasks[k].priorityScore
            \/ arg.plan.tasks[j].priorityScore = arg.plan.tasks[k].priorityScore /\ k <= j

\* C14: getNextTask returns a task of plan.tasks that is not in completedIds and
\* has the highest priorityScore among those, the first such in plan.tasks; it
\* returns null exactly when every task is in completedIds; it leaves plan.tasks
\* as it was.
C14_NextTaskIsFirstBest ==
    callee = "getNextTask" =>
        /\ (ret.value = <<>>) <=> (OpenPositions = {})
        /\ OpenPositions # {} => ret.value = <<arg.plan.tasks[FirstBest(OpenPositions)]>>
        /\ arg.planAfter = arg.plan

\* two open tasks share the highest score, a completed task stands before them,
\* and the first of the two is returned
C14_Witness ==
    /\ callee = "getNextTask"
    /\ Len(ret.value) = 1
    /\ \E i, j \in OpenPositions :
          /\ i < j
          /\ arg.plan.tasks[i].priorityScore = arg.plan.tasks[j].priorityScore
          /\ i = FirstBest(OpenPositions)
          /\ ret.value[1] = arg.plan.tasks[i]
          /\ \E c \in 1..Len(arg.plan.tasks) : c < i /\ c \notin OpenPositions

\* the call number k of a callHuggingFace run with R attempts per model
ExpectedCall(h, k) ==
    [model   |-> h.modelsToTry[((k - 1) \div h.maxRetries) + 1],
     attempt |-> ((k - 1) % h.maxRetries) + 1]

HfDiscipline ==
    hf.pc # "idle" =>
        /\ Len(hf.calls) <= Len(hf.modelsToTry) * Max(0, hf.maxRetries)
        /\ \A k \in 1..Len(hf.calls) :
              /\ hf.calls[k].model = ExpectedCall(hf, k).model
              /\ hf.calls[k].attempt = ExpectedCall(hf, k).attempt
              /\ k < Len(hf.calls) => hf.calls[k].outcome # "content"
        /\ hf.pc = "attempt" =>
              \A k \in 1..Len(hf.calls) : hf.calls[k].outcome # "content"
        /\ hf.pc = "returned" =>
              /\ Len(hf.calls) >= 1
              /\ hf.calls[Len(hf.calls)].outcome = "content"
              /\ hf.content = Len(hf.calls)
        /\ hf.pc = "threw" =>
              /\ Len(hf.calls) = Len(hf.modelsToTry) * Max(0, hf.maxRetries)
              /\ \A k \in 1..Len(hf.calls) : hf.calls[k].outcome # "content"
              /\ hf.lastError = Len(hf.calls)

FitTogether(a, b, prefs) ==
    LET total(t) == t.estimatedHours + (t.estimatedHours * prefs.bufferTimePercent) \div 100
    IN  total(a) + total(b) <= prefs.availableHoursPerDay

ScenarioCall ==
    /\ callee = "createFallbackSchedule"
    /\ arg.preferences.availableHoursPerDay = 4000
    /\ arg.preferences.bufferTimePercent = 20
    /\ Len(arg.tasks) = 5
    /\ SumSeq(EstimatedHours(arg.tasks)) = 22000

\* C16 as stated: with 4 hours a day and 20% buffer, createFallbackSchedule gives
\* at least 5 days for every list of five tasks whose estimatedHours sum to 22.
C16_AtLeastFiveDays ==
    ScenarioCall => Len(ret.value.schedule) >= 5

\* C16: with 4 hours a day and 20% buffer, createFallbackSchedule gives every list
\* of five tasks whose estimatedHours sum to 22 at least 2 days, and it gives 5
\* days exactly when no two tasks that follow each other in descending score
\* order fit into one day together with their buffers.
C16_FiveDaysUnlessTwoFit ==
    ScenarioCall =>
        LET sorted == SortByScore(arg.tasks)
        IN  /\ Len(ret.value.schedule) >= 2
            /\ Len(ret.value.schedule) >= 5
                  <=> \A k \in 1..4 : ~FitTogether(sorted[k], sorted[k + 1], arg.preferences)

\* five tasks of 4.5, 4.5, 4.5, 4.5 and 4 hours, each alone in its day
C16_Witness ==
    /\ ScenarioCall
    /\ \A k \in 1..5 : arg.tasks[k].estimatedHours \in {4000, 4500}
    /\ Len(ret.value.schedule) = 5
    /\ \A d \in 1..5 : Len(ret.value.schedule[d].tasks) = 1

\* the step name of the last stage whose result the run holds
LastStageDone ==
    IF scoredTasks # <<>> THEN "STEP_3_COMPLETE"
    ELSE IF tasks # <<>> THEN "STEP_2_COMPLETE"
    ELSE IF analyzedGoal # NoAnalysis THEN "STEP_1_COMPLETE"
    ELSE "NONE"

EmptyDecompositionAbort ==
    /\ pc = "done"
    /\ ~result.success
    /\ result.error = "Task decomposition produced no tasks"

\* C17: an aborted createStudyPlan returns success=false and no plan, the log up
\* to the failure, and failedAt naming the last stage that completed before it
\* ('NONE' when none did); after an empty decomposition failedAt names the goal
\* analysis stage, not the decomposition stage.
C17_FailedAtLastCompleted ==
    (pc = "done" /\ ~result.success) =>
        /\ result.plan = <<>>
        /\ executionLog[Len(executionLog)] = "ORCHESTRATION_ERROR"
        /\ \A k \in 1..(Len(executionLog) - 1) : executionLog[k] # "ORCHESTRATION_ERROR"
        /\ result.failedAt = LastStageDone
        /\ EmptyDecompositionAbort => result.failedAt = "STEP_1_COMPLETE"

StepStart(k) ==
    <<"STEP_1_START", "STEP_2_START", "STEP_3_START", "STEP_4_START">>[k]
StepComplete(k) ==
    <<"STEP_1_COMPLETE", "STEP_2_COMPLETE", "STEP_3_COMPLETE", "STEP_4_COMPLETE">>[k]
Before(log, i, step) == \E j \in 1..(i - 1) : log[j] = step

LogInOrder(log) ==
    \A i \in 1..Len(log) :
        /\ \A k \in 2..4 : log[i] = StepStart(k) => Before(log, i, StepComplete(k - 1))
        /\ \A k \in 1..4 : log[i] = StepComplete(k) => Before(log, i, StepStart(k))
        /\ \A k \in 1..4 : log[i] = StepStart(k) =>
              /\ ~Before(log, i, StepStart(k))
              /\ ~Before(log, i, "ORCHESTRATION_ERROR")
        /\ log[i] = "ORCHESTRATION_COMPLETE" => Before(log, i, StepComplete(4))

IsPrefix(a, b) == Len(a) <= Len(b) /\ SubSeq(b, 1, Len(a)) = a

\* C18: in one createStudyPlan run the log only grows, STEP_k_START is preceded
\* by STEP_(k-1)_COMPLETE, no stage starts twice or after an ORCHESTRATION_ERROR,
\* and ORCHESTRATION_COMPLETE comes only after STEP_4_COMPLETE.
C18_StagesInOrder ==
    /\ []LogInOrder(executionLog)
    /\ [][IsPrefix(executionLog, executionLog')]_executionLog

\* a run that went through all four stages
C18_Witness ==
    /\ pc = "done"
    /\ result.success
    /\ executionLog = <<"ORCHESTRATION_START",
                        "STEP_1_START", "STEP_1_COMPLETE", "STEP_2_START", "STEP_2_COMPLETE",
                        "STEP_3_START", "STEP_3_COMPLETE", "STEP_4_START", "STEP_4_COMPLETE",
                        "ORCHESTRATION_COMPLETE">>

\* what a run with the request's goal, options and generation outcomes gives on
\* its own
AloneGoal(q)   == analyzeGoal(q.body.goalText, q.resps[1]).value
AloneTasks(q)  ==
    SortByScore(scoreTasks(decompose(AloneGoal(q), q.resps[2]).value,
                           buildUserContext(RunOptions(q), AloneGoal(q)), q.resps[3]))
AloneSchedule(q) ==
    createSchedule(AloneTasks(q),
                   buildSchedulingPreferences(RunOptions(q), AloneGoal(q)), q.resps[4])

\* C19: with two createStudyPlan requests interleaved at every await, the log of
\* the orchestrator of each run, and the log its run returns, hold exactly the
\* steps of that run, in order, and the tasks and the schedule returned are those
\* the run gives on its own.
C19_RunsIndependent ==
    \A i \in Requests :
        LET q == reqs[i]
        IN  /\ InRun(q) => orchLogs[OrchestratorOf(i)] = q.steps
            /\ q.result # NoRunResult =>
                  /\ q.result.executionLog = q.steps
                  /\ LogInOrder(q.result.executionLog)
                  /\ q.result.executionLog[1] = "ORCHESTRATION_START"
                  /\ q.result.success =>
                        /\ q.result.plan[1].tasks = AloneTasks(q)
                        /\ q.result.plan[1].schedule = AloneSchedule(q)

\* both requests answered 201, the run of the second begun while the run of the
\* first was in progress, with different tasks and schedules
C19_Witness ==
    /\ reqs[1].status = 201
    /\ reqs[2].status = 201
    /\ reqs[2].startedDuring
    /\ reqs[1].body # reqs[2].body
    /\ reqs[1].result.plan[1].tasks # reqs[2].result.plan[1].tasks
    /\ reqs[1].result.plan[1].schedule # reqs[2].result.plan[1].schedule
    /\ Len(reqs[1].result.executionLog) = 10
    /\ Len(reqs[2].result.executionLog) = 10

\* C20: for a goal and a plan that exist the triggerReflection handler answers
\* 200; it answers 404 when the goal or the plan is missing; it pushes an
\* adjustment record to the plan only when the reflection result reports one.
C20_ReflectionAnswers ==
    callee = "triggerReflection" =>
        /\ (arg.goalFound /\ arg.planFound) => ret.value.status = 200
        /\ ~(arg.goalFound /\ arg.planFound) => ret.value.status = 404
        /\ ret.value.pushed > 0 => (ret.value.status = 200 /\ arg.adjusted)

\* the memoryUpdates a run's answer named (none on the fallback path)
UpdatesOf(i) ==
    LET r == rfl.runs[i].resp
    IN  IF r.kind = "text" /\ ParseDirect(r) /\ r.json.t = "obj" /\ r.json.memoryUpdates.present
        THEN r.json.memoryUpdates.items ELSE <<>>

\* the patterns list of the memory a run returned, as it is now
PatternsReturned(i) ==
    IF rfl.runs[i].own THEN rfl.runs[i].ownPatterns
    ELSE IF rfl.given.hasPatterns THEN rfl.given.patterns ELSE <<>>

\* the updates of run a, then those of run b, applied to the first patterns list
OneAfterTheOther(a, b) ==
    UpsertAll(UpsertAll(rfl.first.patterns, UpdatesOf(a), 1).patterns, UpdatesOf(b), 1).patterns

BothReturned == \A i \in Runs : rfl.runs[i].pc = "returned"
Overlapped == BothReturned /\ Len(rfl.finished) = 2

\* C21 as stated: when two reflect calls on the same userMemory overlap at their
\* generation awaits, the patterns list that results (that of the memory the later call
\* returns) is the one that applying the two calls' memoryUpdates one after the
\* other gives, in one of the two orders, and it names no key twice.
C21_UpsertsSerializable ==
    Overlapped =>
        LET last == rfl.finished[2]
        IN  /\ \/ PatternsReturned(last) = OneAfterTheOther(1, 2)
               \/ PatternsReturned(last) = OneAfterTheOther(2, 1)
            /\ NoDuplicateKeys(PatternsReturned(last))

\* C21: the upserts of overlapping reflect calls are not interleaved. On a memory
\* with a patterns list both calls return that list, which holds the updates of
\* the call that returned first and then those of the other; on a memory without
\* one each call returns a list of its own that holds its own updates only (none
\* when its pass threw and the call fell back). No list names a key twice.
C21_UpsertsNotInterleaved ==
    Overlapped =>
        /\ rfl.first.hasPatterns =>
              \A i \in Runs :
                  PatternsReturned(i) = OneAfterTheOther(rfl.finished[1], rfl.finished[2])
        /\ ~rfl.first.hasPatterns =>
              \A i \in Runs :
                  LET own == UpsertAll(<<>>, UpdatesOf(i), 1)
                  IN  PatternsReturned(i) = IF own.threw THEN <<>> ELSE own.patterns
        /\ \A i \in Runs : NoDuplicateKeys(PatternsReturned(i))

\* the second call returned first and named a key twice, the first call then
\* raised the occurrences of the pattern the memory had
C21_Witness ==
    /\ Overlapped
    /\ rfl.finished = <<2, 1>>
    /\ rfl.first.hasPatterns
    /\ Len(rfl.first.patterns) = 1
    /\ Len(UpdatesOf(2)) = 2
    /\ Len(UpdatesOf(1)) = 1
    /\ PatternsReturned(1) = <<[pattern |-> "evening_productivity", occurrences |-> 2],
                               [pattern |-> "monday_struggles", occurrences |-> 2]>>

\* a call that went through createFallbackSchedule with a non-empty task list
FallbackScheduleCall ==
    /\ \/ callee = "createFallbackSchedule"
       \/ callee = "createSchedule" /\ ret.value.fallback
    /\ Len(arg.tasks) > 0

\* duration plus buffer of an instance, and of a day, by the preferences
BufferedTime(inst, prefs) == inst.duration + (inst.duration * prefs.bufferTimePercent) \div 100
BufferedTotal(day, prefs) ==
    SumSeq([k \in 1..Len(day.tasks) |-> BufferedTime(day.tasks[k], prefs)])

\* C22: in every schedule createFallbackSchedule builds from a non-empty task
\* list no day is empty, the days are numbered 1..n, a day whose buffered total
\* exceeds availableHoursPerDay holds exactly one task, and a day other than the
\* first begins with a task that did not fit into the day before it.
C22_FallbackDays ==
    FallbackScheduleCall =>
        LET days == ret.value.schedule
            prefs == arg.preferences
        IN  /\ Len(days) >= 1
            /\ \A d \in 1..Len(days) :
                  /\ Len(days[d].tasks) >= 1
                  /\ days[d].day = d
                  /\ BufferedTotal(days[d], prefs) > prefs.availableHoursPerDay
                        => Len(days[d].tasks) = 1
                  /\ d > 1 =>
                        BufferedTotal(days[d - 1], prefs) + BufferedTime(days[d].tasks[1], prefs)
                            > prefs.availableHoursPerDay

\* a first day over the cap with its single task, and a later day of several tasks
C22_Witness ==
    /\ FallbackScheduleCall
    /\ Len(ret.value.schedule) >= 3
    /\ BufferedTotal(ret.value.schedule[1], arg.preferences)
          > arg.preferences.availableHoursPerDay
    /\ \E d \in 2..Len(ret.value.schedule) : Len(ret.value.schedule[d].tasks) >= 2

\* clamp(round(5 + priority + position + urgency + tendency), 1, 10), doubled
\* before the rounding to keep the halves of the position term
RuleScore(task, index, context) ==
    LET twice == 10 + (IF task.priority = "high" THEN 6
                       ELSE IF task.priority = "low" THEN -4 ELSE 0)
                    + (IF index < 6 THEN 6 - index ELSE 0)
                    + (IF HasUrgentDeadline(context.deadline) THEN 4 ELSE 0)
                    + (IF context.userTendency = "procrastinator" /\ index < 2 THEN 2 ELSE 0)
        rounded == (twice + 1) \div 2
    IN  IF rounded < 1 THEN 1 ELSE IF rounded > 10 THEN 10 ELSE rounded

\* C23: when scoring fails as a whole, the generation call having failed or its
\* output not being a parsable array, every task gets the rule score computed
\* with the deadline and the userTendency of the context given to scoreTasks, the
\* same for both kinds of failure.
C23_FallbackScoresUseContext ==
    (callee = "scoreTasks" /\ ~IsJsonArray(resp)) =>
        \A k \in 1..Len(arg.tasks) :
            ret.value[k].priorityScore = RuleScore(arg.tasks[k], k - 1, arg.context)

\* a reflect call whose answer parsed, carried an adjustments object and was
\* applied to a plan with scheduled instances
AdjustmentsApplied ==
    /\ callee = "reflect"
    /\ ~ret.value.fallback
    /\ resp.json.adjustments.present
    /\ Len(arg.currentPlan.schedule) > 0

\* the instance k of day d before and after applyAdjustments
InstanceBefore(d, k) == arg.currentPlan.schedule[d].tasks[k]
InstanceAfter(d, k) == ret.value.adjustedPlan.schedule[d].tasks[k]

\* the instances and their durations are those of the plan given
SameInstances ==
    /\ Len(ret.value.adjustedPlan.schedule) = Len(arg.currentPlan.schedule)
    /\ \A d \in 1..Len(arg.currentPlan.schedule) :
          /\ Len(ret.value.adjustedPlan.schedule[d].tasks)
                = Len(arg.currentPlan.schedule[d].tasks)
          /\ \A k \in 1..Len(arg.currentPlan.schedule[d].tasks) :
                /\ InstanceAfter(d, k).taskId = InstanceBefore(d, k).taskId
                /\ InstanceAfter(d, k).duration = InstanceBefore(d, k).duration

\* an instance named by priorityChanges takes newPriority and keeps its buffer
PriorityChangesApplied ==
    \A d \in 1..Len(arg.currentPlan.schedule) :
        \A k \in 1..Len(arg.currentPlan.schedule[d].tasks) :
            LET at == FindPriorityChange(resp.json.adjustments.priorityChanges,
                                         InstanceBefore(d, k).taskId, 1)
            IN  at > 0 =>
                   /\ InstanceAfter(d, k).priorityScore
                         = resp.json.adjustments.priorityChanges[at].newPriority
                   /\ InstanceAfter(d, k).bufferAfter = InstanceBefore(d, k).bufferAfter

\* the other instances, when recommendedBufferPercent is there
Rebuffered(d, k) ==
    /\ FindPriorityChange(resp.json.adjustments.priorityChanges,
                          InstanceBefore(d, k).taskId, 1) = 0
    /\ resp.json.adjustments.recommendedBufferPercent # 0

\* every day's totalHours is the sum of duration + bufferAfter of its instances
TotalHoursAreSums ==
    \A d \in 1..Len(ret.value.adjustedPlan.schedule) :
        LET day == ret.value.adjustedPlan.schedule[d]
        IN  day.totalHours = SumSeq([k \in 1..Len(day.tasks) |->
                                        day.tasks[k].duration + day.tasks[k].bufferAfter])

\* C24 as stated: after applyAdjustments with a parsed adjustments object an
\* instance named by priorityChanges has newPriority as its priorityScore and
\* its buffer as before, every other instance has bufferAfter equal to
\* duration * recommendedBufferPercent / 100 when the percentage is present,
\* every day's totalHours is the sum of duration + bufferAfter over its
\* instances, and the instances and their durations are unchanged.
C24_AdjustmentsExact ==
    AdjustmentsApplied =>
        /\ SameInstances
        /\ PriorityChangesApplied
        /\ TotalHoursAreSums
        /\ \A d \in 1..Len(arg.currentPlan.schedule) :
              \A k \in 1..Len(arg.currentPlan.schedule[d].tasks) :
                  Rebuffered(d, k) =>
                      InstanceAfter(d, k).bufferAfter * 100
                          = InstanceBefore(d, k).duration
                               * resp.json.adjustments.recommendedBufferPercent

\* C24: the same, with the buffer of a re-buffered instance being
\* duration * recommendedBufferPercent / 100 rounded to one decimal place, and
\* every day's totalHours the sum rounded to one decimal place.
C24_AdjustmentsRounded ==
    AdjustmentsApplied =>
        /\ SameInstances
        /\ PriorityChangesApplied
        /\ \A d \in 1..Len(ret.value.adjustedPlan.schedule) :
              LET day == ret.value.adjustedPlan.schedule[d]
                  sum == SumSeq([k \in 1..Len(day.tasks) |->
                                    day.tasks[k].duration + day.tasks[k].bufferAfter])
              IN  /\ day.totalHours % 100 = 0
                  /\ day.totalHours >= sum - 50
                  /\ day.totalHours <= sum + 50
        /\ \A d \in 1..Len(arg.currentPlan.schedule) :
              \A k \in 1..Len(arg.currentPlan.schedule[d].tasks) :
                  Rebuffered(d, k) =>
                      /\ InstanceAfter(d, k).bufferAfter % 100 = 0
                      /\ 2 * InstanceAfter(d, k).bufferAfter * 100
                            >= 2 * InstanceBefore(d, k).duration
                                 * resp.json.adjustments.recommendedBufferPercent - 10000
                      /\ 2 * InstanceAfter(d, k).bufferAfter * 100
                            <= 2 * InstanceBefore(d, k).duration
                                 * resp.json.adjustments.recommendedBufferPercent + 10000

\* one instance re-prioritised with its buffer kept, another re-buffered to a
\* rounded value, on a day whose total was recomputed
C24_Witness ==
    /\ AdjustmentsApplied
    /\ resp.json.adjustments.recommendedBufferPercent # 0
    /\ \E d \in 1..Len(arg.currentPlan.schedule) :
          \E k \in 1..Len(arg.currentPlan.schedule[d].tasks) :
              /\ ~Rebuffered(d, k)
              /\ InstanceAfter(d, k).priorityScore # InstanceBefore(d, k).priorityScore
    /\ \E d \in 1..Len(arg.currentPlan.schedule) :
          \E k \in 1..Len(arg.currentPlan.schedule[d].tasks) :
              /\ Rebuffered(d, k)
              /\ InstanceAfter(d, k).bufferAfter * 100
                    # InstanceBefore(d, k).duration
                         * resp.json.adjustments.recommendedBufferPercent
              /\ ret.value.adjustedPlan.schedule[d].totalHours
                    # arg.currentPlan.schedule[d].totalHours

\* every task of the plan and every scheduled instance has a priorityScore in 1..10
ScoresInRange(plan) ==
    /\ \A k \in 1..Len(plan.tasks) : plan.tasks[k].priorityScore \in 1..10
    /\ \A d \in 1..Len(plan.schedule.schedule) :
          \A k \in 1..Len(plan.schedule.schedule[d].tasks) :
              plan.schedule.schedule[d].tasks[k].priorityScore \in 1..10

\* C25: after adjustPlan on a plan whose tasks and scheduled instances have an
\* integer priorityScore in 1..10, every task and every scheduled instance of
\* the adjusted plan still has one, whatever newPriority the reflection answer
\* proposes in priorityChanges.
C25_AdjustedScoresInRange ==
    (callee = "adjustPlan" /\ ScoresInRange(arg.currentPlan))
        => ScoresInRange(ret.value.adjustedPlan)

\* the stats of an observation set: attempted, completed, rate in tenths of a percent
StatsOf(userProgress) ==
    [totalTasksAttempted   |-> Len(userProgress),
     totalTasksCompleted   |-> CountStatus(userProgress, {"completed"}),
     overallCompletionRate |->
         IF Len(userProgress) = 0 THEN 0
         ELSE CompletionRateTenths(CountStatus(userProgress, {"completed"}),
                                   Len(userProgress))]

\* C26: after every reflect call, on the parsed path and on the fallback path,
\* the memory returned carries stats, and they are those of the observation set
\* of this call alone (0 for an empty set), whatever stats the memory given held.
C26_StatsOfThisCall ==
    (callee = "reflect" /\ ~ret.threw) =>
        /\ ret.value.updatedMemory.hasStats
        /\ ret.value.updatedMemory.stats = StatsOf(arg.userProgress)

\* the same payload standing alone in the answer
Bare(r) == [r EXCEPT !.form = "bare"]

\* an answer that wraps, in code fences or in prose, a JSON payload of the kind
\* the stage asks for: an object, or an array for decomposition and scoring
WrappedPayload ==
    /\ resp.kind = "text"
    /\ resp.form \in {"fenced", "prose"}
    /\ resp.json.t = (IF callee \in {"decompose", "scoreTasks"} THEN "arr" ELSE "obj")

\* what the stage called returns for the answer r
StageResult(r) ==
    CASE callee = "analyzeGoal"    -> analyzeGoal(arg.goalText, r)
      [] callee = "decompose"      -> decompose(arg.analyzedGoal, r)
      [] callee = "scoreTasks"     -> Returned(scoreTasks(arg.tasks, arg.context, r))
      [] callee = "createSchedule" ->
             Returned(createSchedule(arg.tasks, arg.preferences, r))
      [] callee = "reflect"        ->
             Returned(reflect(arg.currentPlan, arg.userProgress, arg.userMemory, r).value)

\* C27: in every stage (goal analysis, decomposition, scoring, scheduling,
\* reflection) an answer that wraps a valid JSON payload in code fences or in
\* prose is parsed to that payload and used: the stage returns what it returns
\* for the payload standing alone, and does not fall back.
C27_WrappedPayloadUsed ==
    (callee \in {"analyzeGoal", "decompose", "scoreTasks", "createSchedule", "reflect"}
        /\ WrappedPayload)
        => ret = StageResult(Bare(resp))

\* the ids of a task list, in its order
IdsOf(ts) == [k \in 1..Len(ts) |-> ts[k].id]

\* C28: createSchedule leaves the task list of its caller as it was (the same
\* tasks in the same order), and so the task list of the plan createStudyPlan
\* returns is in the order decomposition and scoring produced.
C28_TaskListUntouched ==
    /\ callee = "createSchedule" => arg.tasksAfter = arg.tasks
    /\ (pc = "done" /\ result.success) => IdsOf(result.plan[1].tasks) = IdsOf(tasks)

\* C29: reflect does not modify the userMemory object it is given: after the
\* call the object has the patterns, with the occurrences, and the stats it had
\* before, and the changes are in the returned updatedMemory only.
C29_MemoryArgumentUntouched ==
    callee = "reflect" => arg.userMemoryAfter = arg.userMemory

\* the hours of day d taken, with their buffers, by the instances before instance k
AccumulatedBefore(day, k, prefs) ==
    SumSeq([j \in 1..(k - 1) |-> BufferedTime(day.tasks[j], prefs)])

\* a start time in minutes since midnight
MinuteOfDay(startTime) == startTime.hour * 60 + startTime.minutes

BaseHourOf(timeOfDay) ==
    IF timeOfDay = "afternoon" THEN 14 ELSE IF timeOfDay = "evening" THEN 18 ELSE 9

\* the start times of a day increase strictly, and each is the base hour plus the
\* buffered hours accumulated by the instances before it
StartTimesAccumulate(day, prefs) ==
    \A k \in 1..Len(day.tasks) :
        LET acc == AccumulatedBefore(day, k, prefs)
        IN  /\ day.tasks[k].startTime.hour = BaseHourOf(prefs.timeOfDay) + acc \div 1000
            /\ day.tasks[k].startTime.minutes = ((acc % 1000) * 60 + 500) \div 1000
            /\ k > 1 => MinuteOfDay(day.tasks[k - 1].startTime)
                           < MinuteOfDay(day.tasks[k].startTime)

\* C30: every startTime createFallbackSchedule writes is a clock time, with hour
\* in 0..23 and minutes in 0..59, for every time of day and availableHoursPerDay
\* up to 12; within a day the start times increase strictly and each is the base
\* hour plus the buffered hours accumulated by the earlier instances of the day.
C30_StartTimesAreClockTimes ==
    FallbackScheduleCall =>
        \A d \in 1..Len(ret.value.schedule) :
            /\ StartTimesAccumulate(ret.value.schedule[d], arg.preferences)
            /\ \A k \in 1..Len(ret.value.schedule[d].tasks) :
                  /\ ret.value.schedule[d].tasks[k].startTime.hour \in 0..23
                  /\ ret.value.schedule[d].tasks[k].startTime.minutes \in 0..59

====
